---- MODULE Spec2Model ----
(***************************************************************************)
(* Model of the ELF load driver of rust-elfloader (src/binary.rs):         *)
(* ElfBinary::load, is_loadable, maybe_relocate, iter_loadable_headers,    *)
(* and the ElfLoader callbacks it drives.  The ELF image is an abstract    *)
(* view (file header fields, program headers, the two relocation           *)
(* sections); the Loader is the environment: each of its callbacks         *)
(* returns Ok or an error of its own choosing.                             *)
(*                                                                         *)
(* Six specifications share the variables:                                 *)
(*   Spec        a run of ElfBinary::load on a constructed binary;         *)
(*   SpecAgain   two runs of load, one after the other, on one binary;     *)
(*   SpecNew     ElfBinary::new (with parse_dynamic) applied to a region;  *)
(*   SpecTables  the relocation-number tables (the `from` functions of     *)
(*               src/arch and TypeRela64::from) applied to a number;       *)
(*   SpecSymbols ElfBinary::for_each_symbol;                               *)
(*   SpecInterp  ElfBinary::interpreter.                                   *)
(***************************************************************************)
EXTENDS Integers, Sequences, FiniteSets, TLC

\* ---------------------------------------------------------------- bounds
\* Largest number of program headers of an input binary.
MaxPh == 3
\* Largest number of records in a relocation section of an input binary.
MaxRel == 2

\* ------------------------------------------------------- the input space
\* header.pt1.version(): Current, or anything else.
Versions == {"Current", "None"}
\* header.pt1.data()
Datas == {"LittleEndian", "BigEndian"}
\* header.pt1.os_abi()
OsAbis == {"SystemV", "Linux", "OpenBSD"}
\* header.pt2.type_().as_type()
ElfTypes == {"Executable", "SharedObject", "Relocatable"}
\* header.pt1.class()
Classes == {"ThirtyTwo", "SixtyFour"}
\* header.pt2.machine(), a field of the file header that is_loadable is
\* handed with the rest of the header.
Machines == {"X86_64", "AArch64", "Mips"}
\* Result of ProgramHeader::get_type(): Ok(Load), Ok(Tls), Ok(GnuRelro),
\* Ok(Dynamic) (which load treats like every other type it skips), or Err
\* ("Invalid" stands for a p_type that cannot be decoded).
PhTypes == {"Load", "Tls", "GnuRelro", "Dynamic", "Invalid"}
\* sh_type of a section: relocations with addend, without, or other data.
ShTypes == {"Rela", "Rel", "ProgBits"}

\* Error values of ElfLoaderErr that the Loader of the model returns.
LoaderErrs == {"UnsupportedRelocationEntry", "UnsupportedElfFormat"}

Ok == [ok |-> TRUE]
Err(e) == [ok |-> FALSE, err |-> e]
\* impl From<&'static str> for ElfLoaderErr
ElfParser == "ElfParser"

\* Results a Loader callback can return.
LoaderResults == {Ok} \cup {Err(e) : e \in LoaderErrs}

\* Option<T>
None == <<>>
Some(v) == <<v>>

\* The program header at file position i: every header describes its own
\* segment, so the fields differ from header to header and from field to
\* field.  The headers at odd positions have a p_memsz larger than their
\* p_filesz (a segment with a zero-filled tail); those at even positions
\* are malformed, their p_filesz exceeds their p_memsz.
PhAt(i, t) ==
    [type |-> t,
     virtual_addr |-> 4096 * i,
     file_size |-> 16 * i + 4,
     mem_size |-> IF i % 2 = 1 THEN 16 * i + 8 ELSE 16 * i,
     flags |-> 3 + i,
     align |-> 256 * i]

\* All program-header tables of n entries.
PhTables(n) == { [i \in 1..n |-> PhAt(i, ts[i])] : ts \in [1..n -> PhTypes] }

\* The relocation number of the k-th record of a section: 8 (a number
\* every table defines), 13 (a number in the gap of the x86 and RISC-V
\* tables), then numbers beyond the x86, x86_64 and RISC-V tables.
RelType(k) == IF k = 1 THEN 8 ELSE IF k = 2 THEN 13 ELSE 57 + k

\* The k-th record of a relocation section; base tells the two sections
\* apart.  A REL record has no r_addend field.
RelRecord(shtype, base, k) ==
    IF shtype = "Rela"
    THEN [r_offset |-> base + 8 * k, r_sym |-> k - 1, r_type |-> RelType(k),
          r_addend |-> base + 100 * k]
    ELSE [r_offset |-> base + 8 * k, r_sym |-> k - 1, r_type |-> RelType(k)]

\* The sections a name can stand for in a binary whose relocation sections
\* have n records: none (None), a RELA or a REL section of n records, or a
\* section of other data.
MaybeSections(base, n) ==
    {None} \cup
    { Some([sh_type |-> st,
            entries |-> IF st = "ProgBits" THEN <<>>
                        ELSE [k \in 1..n |-> RelRecord(st, base, k)]]) :
      st \in ShTypes }

VARIABLES
    file,     \* the ElfFile view held by the ElfBinary
    dynamic,  \* the DynamicInfo held by the ElfBinary that load runs on
    earlier,  \* calls and result of an earlier run of load on the binary
    region,   \* the byte region ElfBinary::new is applied to (SpecNew)
    reloc,    \* the table and the number `from` is applied to (SpecTables)
    pc,       \* position of the operation that runs
    ph,       \* index of the program header the current loop is at
    rel,      \* index of the relocation record maybe_relocate is at
    calls,    \* the Loader calls made so far, with their results
    result    \* the value the operation returned (None while it runs)

vars == <<file, dynamic, earlier, region, reloc, pc, ph, rel, calls, result>>

\* ------------------------------------------------------ ElfBinary::new
\* The loop of ElfBinary::new over the program headers: get_type()? on
\* every header up to and including the first PT_DYNAMIC one.
RECURSIVE NewScan(_, _)
NewScan(phdrs, i) ==
    IF i > Len(phdrs) THEN Ok
    ELSE IF phdrs[i].type = "Invalid" THEN Err(ElfParser)
    ELSE IF phdrs[i].type = "Dynamic" THEN Ok
    ELSE NewScan(phdrs, i + 1)

\* -------------------------------------------------------------- Init
\* The program-header tables ElfBinary::new accepts.
Tables ==
    { t \in UNION { PhTables(n) : n \in 0..MaxPh } : NewScan(t, 1) = Ok }

\* Binaries without relocation sections, with every combination of the
\* file-header fields that is_loadable reads.
PlainFiles ==
    [version : Versions, data : Datas, os_abi : OsAbis, type : ElfTypes,
     class : Classes, machine : {"X86_64"}, entry_point : {4096},
     phdrs : Tables, rela_dyn : {None}, rel_dyn : {None}]

\* Little-endian SystemV shared objects (the file header of a PIE binary)
\* of both classes, with every combination of the two relocation sections.
\* The records of .rela.dyn name addresses from 4096 on, those of .rel.dyn
\* addresses from 1000 on, which no program header of the model covers.
RelocatableFiles ==
    UNION { [version : {"Current"}, data : {"LittleEndian"},
             os_abi : {"SystemV"}, type : {"SharedObject"},
             class : Classes, machine : {"X86_64"}, entry_point : {4096},
             phdrs : Tables,
             rela_dyn : MaybeSections(4096, n),
             rel_dyn : MaybeSections(1000, n)] : n \in 0..MaxRel }

\* 64-bit little-endian SystemV shared objects without relocation sections
\* for the other machines.
MachineFiles ==
    [version : {"Current"}, data : {"LittleEndian"}, os_abi : {"SystemV"},
     type : {"SharedObject"}, class : {"SixtyFour"},
     machine : Machines \ {"X86_64"}, entry_point : {4096}, phdrs : Tables,
     rela_dyn : {None}, rel_dyn : {None}]

\* The DynamicInfo that ElfBinary::new leaves in a binary with these
\* program headers: None without a PT_DYNAMIC header, otherwise that of an
\* empty dynamic segment or that of a PIE (DF_1_NOW and DF_1_PIE, bits 0
\* and 27) with a relocation table of two records at 4096.
Dynamics(phdrs) ==
    IF \E i \in DOMAIN phdrs : phdrs[i].type = "Dynamic"
    THEN {Some([flags1 |-> {}, rela |-> 0, rela_size |-> 0]),
          Some([flags1 |-> {0, 27}, rela |-> 4096, rela_size |-> 48])}
    ELSE {None}

\* The state after ElfBinary::new succeeded, before load is called.
Init ==
    /\ file \in PlainFiles \cup RelocatableFiles \cup MachineFiles
    /\ dynamic \in Dynamics(file.phdrs)
    /\ earlier = None
    /\ region = None
    /\ reloc = None
    /\ pc = "is_loadable"
    /\ ph = 1
    /\ rel = 1
    /\ calls = <<>>
    /\ result = None

\* ------------------------------------------------ ElfBinary::is_loadable
\* An eligibility check that tests the file type before the byte order.
is_loadable_TypeFirst(f) ==
    IF f.version # "Current" THEN Err("UnsupportedElfVersion")
    ELSE IF ~(f.type = "Executable" \/ f.type = "SharedObject")
         THEN Err("UnsupportedElfType")
    ELSE IF f.data # "LittleEndian" THEN Err("UnsupportedEndianness")
    ELSE IF ~(f.os_abi = "SystemV" \/ f.os_abi = "Linux")
         THEN Err("UnsupportedAbi")
    ELSE Ok

\* An eligibility check without the OS/ABI test.
is_loadable_NoAbiTest(f) ==
    IF f.version # "Current" THEN Err("UnsupportedElfVersion")
    ELSE IF f.data # "LittleEndian" THEN Err("UnsupportedEndianness")
    ELSE IF ~(f.type = "Executable" \/ f.type = "SharedObject")
         THEN Err("UnsupportedElfType")
    ELSE Ok

is_loadable(f) ==
    IF f.version # "Current" THEN Err("UnsupportedElfVersion")
    ELSE IF f.data # "LittleEndian" THEN Err("UnsupportedEndianness")
    ELSE IF ~(f.os_abi = "SystemV" \/ f.os_abi = "Linux")
         THEN Err("UnsupportedAbi")
    ELSE IF ~(f.type = "Executable" \/ f.type = "SharedObject")
         THEN Err("UnsupportedElfType")
    ELSE Ok

\* --------------------------------------- ElfBinary::iter_loadable_headers
\* A filter that keeps the headers whose type cannot be decoded.
select_load_UnwrapTrue(pheader) == pheader.type \in {"Load", "Invalid"}

\* get_type().map(|typ| typ == Type::Load).unwrap_or(false)
select_load(pheader) == pheader.type = "Load"

iter_loadable_headers(f) == SelectSeq(f.phdrs, select_load)

\* ------------------------------------------------------ SectionData
\* SectionHeader::get_data: the shape of the records follows from the
\* section's sh_type and the class of the file.
get_data(f, section) ==
    IF section.sh_type = "Rela"
    THEN (IF f.class = "SixtyFour" THEN "Rela64" ELSE "Rela32")
    ELSE IF section.sh_type = "Rel"
    THEN (IF f.class = "SixtyFour" THEN "Rel64" ELSE "Rel32")
    ELSE IF section.sh_type = "SymTab"
    THEN (IF f.class = "SixtyFour" THEN "SymbolTable64" ELSE "SymbolTable32")
    ELSE IF section.sh_type = "DynSym"
    THEN (IF f.class = "SixtyFour" THEN "DynSymbolTable64"
                                   ELSE "DynSymbolTable32")
    ELSE "Undefined"

\* find_section_by_name(".rela.dyn")
\*     .or_else(|| find_section_by_name(".rel.dyn"))
relocation_section(f) ==
    IF f.rela_dyn # None THEN f.rela_dyn ELSE f.rel_dyn

\* The arms of the match in maybe_relocate: the RelaEntry variant the
\* records of a section of this shape are wrapped in, None for a shape
\* that has no arm.
RelaEntryVariant(data) ==
    IF data = "Rela64" THEN Some("Rela64")
    ELSE IF data = "Rela32" THEN Some("Rela32")
    ELSE IF data = "Rel32" THEN Some("Rel32")
    ELSE None

\* A wrapper that rebases the record onto a load address.
RelaEntry_Rebased(variant, entry) ==
    [variant |-> variant, entry |-> [entry EXCEPT !.r_offset = @ + 4096]]

\* RelaEntry::Rela64(entry), ...
RelaEntry(variant, entry) == [variant |-> variant, entry |-> entry]

\* ------------------------------------------------- the Loader calls
\* ProgramHeader::raw_data: the p_filesz bytes of the segment in the file;
\* the model keeps the length of the slice.
raw_data(header) == header.file_size

\* A first loop that hands the Loader p_memsz as the length of the region
\* of a PT_LOAD segment.
SegmentCall_MemSizeRegion(header) ==
    IF header.type = "Load"
    THEN Some([op |-> "load",
               flags |-> header.flags,
               base |-> header.virtual_addr,
               region_len |-> header.mem_size])
    ELSE IF header.type = "Tls"
    THEN Some([op |-> "tls",
               tdata_start |-> header.virtual_addr,
               tdata_length |-> header.file_size,
               total_size |-> header.mem_size,
               align |-> header.align])
    ELSE None

\* A first loop that passes the two sizes of a PT_TLS segment in the
\* other order.
SegmentCall_TlsSizesSwapped(header) ==
    IF header.type = "Load"
    THEN Some([op |-> "load",
               flags |-> header.flags,
               base |-> header.virtual_addr,
               region_len |-> raw_data(header)])
    ELSE IF header.type = "Tls"
    THEN Some([op |-> "tls",
               tdata_start |-> header.virtual_addr,
               tdata_length |-> header.mem_size,
               total_size |-> header.file_size,
               align |-> header.align])
    ELSE None

\* A first loop that also seals the PT_GNU_RELRO windows, before the
\* relocations are applied.
SegmentCall_SealsRelro(header) ==
    IF header.type = "Load"
    THEN Some([op |-> "load",
               flags |-> header.flags,
               base |-> header.virtual_addr,
               region_len |-> raw_data(header)])
    ELSE IF header.type = "Tls"
    THEN Some([op |-> "tls",
               tdata_start |-> header.virtual_addr,
               tdata_length |-> header.file_size,
               total_size |-> header.mem_size,
               align |-> header.align])
    ELSE IF header.type = "GnuRelro"
    THEN Some([op |-> "make_readonly",
               base |-> header.virtual_addr,
               size |-> header.mem_size])
    ELSE None

\* The match on the header type in the first loop of load: the Loader
\* call the header leads to, None for `_ => {}`.
SegmentCall(header) ==
    IF header.type = "Load"
    THEN Some([op |-> "load",
               flags |-> header.flags,
               base |-> header.virtual_addr,
               region_len |-> raw_data(header)])
    ELSE IF header.type = "Tls"
    THEN Some([op |-> "tls",
               tdata_start |-> header.virtual_addr,
               tdata_length |-> header.file_size,
               total_size |-> header.mem_size,
               align |-> header.align])
    ELSE None

\* A second loop that seals p_filesz bytes of the window.
RelroCall_FileSize(header) ==
    IF header.type = "GnuRelro"
    THEN Some([op |-> "make_readonly",
               base |-> header.virtual_addr,
               size |-> header.file_size])
    ELSE None

\* A second loop that also seals the segment of a PT_DYNAMIC header.
RelroCall_AlsoDynamic(header) ==
    IF header.type \in {"GnuRelro", "Dynamic"}
    THEN Some([op |-> "make_readonly",
               base |-> header.virtual_addr,
               size |-> header.mem_size])
    ELSE None

\* The test in the second loop of load: the make_readonly call of a
\* PT_GNU_RELRO header, None for any other header.  The size is
\* `header.mem_size() as usize`, the identity where usize has 64 bits.
RelroCall(header) ==
    IF header.type = "GnuRelro"
    THEN Some([op |-> "make_readonly",
               base |-> header.virtual_addr,
               size |-> header.mem_size])
    ELSE None

\* ---------------------------------------- the defaults of trait ElfLoader
\* The default body of ElfLoader::tls: Ok(()), whatever the arguments.
tls(tdata_start, tdata_length, total_size, align) == Ok

\* A default that refuses to seal a window.
make_readonly_Refuses(base, size) == Err("UnsupportedElfFormat")

\* The default body of ElfLoader::make_readonly: Ok(()), whatever the
\* arguments.
make_readonly(base, size) == Ok

\* A call site without the `?`: the result is dropped.
Propagates_Never(r) == FALSE

\* The `?` after a call: TRUE when load returns the callee's result at once.
Propagates(r) == r # Ok

\* A Loader call together with the result the Loader gave.
Called(call, r) == [call |-> call, res |-> r]

\* ---------------------------------------------------------- the actions
\* load returns r.
Return(r) ==
    /\ result' = Some(r)
    /\ pc' = "done"

\* self.is_loadable()?
IsLoadable ==
    /\ pc = "is_loadable"
    /\ IF Propagates(is_loadable(file))
       THEN Return(is_loadable(file))
       ELSE pc' = "allocate" /\ result' = result
    /\ UNCHANGED <<file, dynamic, earlier, region, reloc, ph, rel, calls>>

\* An allocation step that leaves the Loader alone when there is nothing
\* to allocate.
Allocate_SkipsEmpty ==
    /\ pc = "allocate"
    /\ \E r \in LoaderResults :
        IF iter_loadable_headers(file) = <<>>
        THEN /\ r = Ok
             /\ pc' = "segments"
             /\ UNCHANGED <<calls, result>>
        ELSE /\ calls' = Append(calls,
                    Called([op |-> "allocate",
                            load_headers |-> iter_loadable_headers(file)], r))
             /\ IF Propagates(r)
                THEN Return(r)
                ELSE pc' = "segments" /\ result' = result
    /\ ph' = 1
    /\ UNCHANGED <<file, dynamic, earlier, region, reloc, rel>>

\* loader.allocate(self.iter_loadable_headers())?
Allocate ==
    /\ pc = "allocate"
    /\ \E r \in LoaderResults :
        /\ calls' = Append(calls,
               Called([op |-> "allocate",
                       load_headers |-> iter_loadable_headers(file)], r))
        /\ IF Propagates(r)
           THEN Return(r)
           ELSE pc' = "segments" /\ result' = result
    /\ ph' = 1
    /\ UNCHANGED <<file, dynamic, earlier, region, reloc, rel>>

\* A first loop that passes over a header whose type cannot be decoded.
LoadHeader_SkipsUndecodable ==
    /\ pc = "segments"
    /\ ph <= Len(file.phdrs)
    /\ LET header == file.phdrs[ph] IN
       IF header.type # "Invalid" /\ SegmentCall(header) # None
       THEN \E r \in LoaderResults :
            /\ calls' = Append(calls, Called(SegmentCall(header)[1], r))
            /\ IF Propagates(r)
               THEN Return(r) /\ ph' = ph
               ELSE ph' = ph + 1 /\ UNCHANGED <<pc, result>>
       ELSE /\ ph' = ph + 1
            /\ UNCHANGED <<pc, result, calls>>
    /\ UNCHANGED <<file, dynamic, earlier, region, reloc, rel>>

\* One iteration of the first loop over self.file.program_iter().
LoadHeader ==
    /\ pc = "segments"
    /\ ph <= Len(file.phdrs)
    /\ LET header == file.phdrs[ph] IN
       IF header.type = "Invalid"
       THEN \* header.get_type()?
            /\ Return(Err(ElfParser))
            /\ UNCHANGED <<ph, calls>>
       ELSE IF SegmentCall(header) # None
       THEN \E r \in LoaderResults :
            /\ calls' = Append(calls, Called(SegmentCall(header)[1], r))
            /\ IF Propagates(r)
               THEN Return(r) /\ ph' = ph
               ELSE ph' = ph + 1 /\ UNCHANGED <<pc, result>>
       ELSE \* _ => {} skip for now
            /\ ph' = ph + 1
            /\ UNCHANGED <<pc, result, calls>>
    /\ UNCHANGED <<file, dynamic, earlier, region, reloc, rel>>

\* A relocation phase that is skipped for a binary without DynamicInfo.
MaybeRelocate_NeedsDynamic ==
    /\ pc = "segments"
    /\ ph > Len(file.phdrs)
    /\ IF relocation_section(file) = None \/ dynamic = None
       THEN /\ pc' = "relro"
            /\ result' = result
       ELSE IF RelaEntryVariant(get_data(file, relocation_section(file)[1])) = None
       THEN Return(Err("UnsupportedSectionData"))
       ELSE /\ pc' = "relocate"
            /\ result' = result
    /\ rel' = 1
    /\ ph' = 1
    /\ UNCHANGED <<file, dynamic, earlier, region, reloc, calls>>

\* A relocation phase that passes over a section it has no arm for.
MaybeRelocate_SkipsUnsupported ==
    /\ pc = "segments"
    /\ ph > Len(file.phdrs)
    /\ IF relocation_section(file) = None
       THEN pc' = "relro"
       ELSE IF RelaEntryVariant(get_data(file, relocation_section(file)[1])) = None
       THEN pc' = "relro"
       ELSE pc' = "relocate"
    /\ result' = result
    /\ rel' = 1
    /\ ph' = 1
    /\ UNCHANGED <<file, dynamic, earlier, region, reloc, calls>>

\* The first loop is over: self.maybe_relocate(loader)? looks up the
\* relocation section and matches on its data.
MaybeRelocate ==
    /\ pc = "segments"
    /\ ph > Len(file.phdrs)
    /\ IF relocation_section(file) = None
       THEN \* neither section found: Ok(())
            /\ pc' = "relro"
            /\ result' = result
       ELSE IF RelaEntryVariant(get_data(file, relocation_section(file)[1])) = None
       THEN Return(Err("UnsupportedSectionData"))
       ELSE /\ pc' = "relocate"
            /\ result' = result
    /\ rel' = 1
    /\ ph' = 1
    /\ UNCHANGED <<file, dynamic, earlier, region, reloc, calls>>

\* A relocation loop that classifies the record itself and gives up on a
\* number beyond the first run of the tables (0 to 11).
RelocateEntry_RejectsUnknown ==
    /\ pc = "relocate"
    /\ LET section == relocation_section(file)[1]
           variant == RelaEntryVariant(get_data(file, section))[1]
       IN
       /\ rel <= Len(section.entries)
       /\ IF section.entries[rel].r_type > 11
          THEN /\ Return(Err("UnsupportedRelocationEntry"))
               /\ UNCHANGED <<rel, calls>>
          ELSE \E r \in LoaderResults :
               /\ calls' = Append(calls,
                      Called([op |-> "relocate",
                              entry |-> RelaEntry(variant, section.entries[rel])], r))
               /\ IF Propagates(r)
                  THEN Return(r) /\ rel' = rel
                  ELSE rel' = rel + 1 /\ UNCHANGED <<pc, result>>
    /\ UNCHANGED <<file, dynamic, earlier, region, reloc, ph>>

\* One iteration of `for entry in rela_entries`.
RelocateEntry ==
    /\ pc = "relocate"
    /\ LET section == relocation_section(file)[1]
           variant == RelaEntryVariant(get_data(file, section))[1]
       IN
       /\ rel <= Len(section.entries)
       /\ \E r \in LoaderResults :
           /\ calls' = Append(calls,
                  Called([op |-> "relocate",
                          entry |-> RelaEntry(variant, section.entries[rel])], r))
           /\ IF Propagates(r)
              THEN Return(r) /\ rel' = rel
              ELSE rel' = rel + 1 /\ UNCHANGED <<pc, result>>
    /\ UNCHANGED <<file, dynamic, earlier, region, reloc, ph>>

\* The records are exhausted: maybe_relocate returns Ok(()).
RelocateDone ==
    /\ pc = "relocate"
    /\ rel > Len(relocation_section(file)[1].entries)
    /\ pc' = "relro"
    /\ UNCHANGED <<file, dynamic, earlier, region, reloc, ph, rel, calls, result>>

\* One iteration of the second loop over self.file.program_iter().
RelroHeader ==
    /\ pc = "relro"
    /\ ph <= Len(file.phdrs)
    /\ LET header == file.phdrs[ph] IN
       IF header.type = "Invalid"
       THEN \* header.get_type()?
            /\ Return(Err(ElfParser))
            /\ UNCHANGED <<ph, calls>>
       ELSE IF RelroCall(header) # None
       THEN \E r \in LoaderResults :
            /\ calls' = Append(calls, Called(RelroCall(header)[1], r))
            /\ IF Propagates(r)
               THEN Return(r) /\ ph' = ph
               ELSE ph' = ph + 1 /\ UNCHANGED <<pc, result>>
       ELSE /\ ph' = ph + 1
            /\ UNCHANGED <<pc, result, calls>>
    /\ UNCHANGED <<file, dynamic, earlier, region, reloc, rel>>

\* Ok(()) at the end of load.
LoadOk ==
    /\ pc = "relro"
    /\ ph > Len(file.phdrs)
    /\ Return(Ok)
    /\ UNCHANGED <<file, dynamic, earlier, region, reloc, ph, rel, calls>>

Next ==
    \/ IsLoadable
    \/ Allocate
    \/ LoadHeader
    \/ MaybeRelocate
    \/ RelocateEntry
    \/ RelocateDone
    \/ RelroHeader
    \/ LoadOk

Spec == Init /\ [][Next]_vars

\* ===================================================== load, run again
\* The binaries load is run on twice: 64-bit little-endian shared objects
\* with every .rela.dyn section and no .rel.dyn section, for the SystemV
\* ABI and for one that is_loadable rejects.
AgainFiles ==
    UNION { [version : {"Current"}, data : {"LittleEndian"},
             os_abi : {"SystemV", "OpenBSD"}, type : {"SharedObject"},
             class : {"SixtyFour"}, machine : {"X86_64"},
             entry_point : {4096}, phdrs : Tables,
             rela_dyn : MaybeSections(4096, n),
             rel_dyn : {None}] : n \in 0..MaxRel }

\* ElfBinary::entry_point
entry_point(binary) == binary.file.entry_point

InitAgain ==
    /\ file \in AgainFiles
    /\ dynamic \in Dynamics(file.phdrs)
    /\ earlier = None
    /\ region = None
    /\ reloc = None
    /\ pc = "is_loadable"
    /\ ph = 1
    /\ rel = 1
    /\ calls = <<>>
    /\ result = None

\* A load that uses up the relocation sections of the binary.
LoadAgain_DropsRelocations ==
    /\ pc = "done"
    /\ earlier = None
    /\ earlier' = Some([calls |-> calls, result |-> result])
    /\ file' = [file EXCEPT !.rela_dyn = None]
    /\ pc' = "is_loadable"
    /\ ph' = 1
    /\ rel' = 1
    /\ calls' = <<>>
    /\ result' = None
    /\ UNCHANGED <<dynamic, region, reloc>>

\* load has returned and is called again on the same binary with another
\* Loader: load takes `&self`, its iterators are locals, and nothing of a
\* run is kept but what the caller saw, the calls and the result.
LoadAgain ==
    /\ pc = "done"
    /\ earlier = None
    /\ earlier' = Some([calls |-> calls, result |-> result])
    /\ pc' = "is_loadable"
    /\ ph' = 1
    /\ rel' = 1
    /\ calls' = <<>>
    /\ result' = None
    /\ UNCHANGED <<file, dynamic, region, reloc>>

NextAgain ==
    \/ Next
    \/ LoadAgain

SpecAgain == InitAgain /\ [][NextAgain]_vars

\* ====================================================== ElfBinary::new
\* Result<T, ElfLoaderErr> with a value.
OkVal(v) == [ok |-> TRUE, val |-> v]

\* DynamicFlags1::PIE (DF_1_PIE, 0x08000000)
PIE == 134217728

\* A flag bit that no DF_1_* flag of DynamicFlags1 names (0x10000000).
UnnamedBit == 268435456

\* Bit b of the word v.  The words of the model are below 2^31, so their
\* bits from 31 on are clear.
Bit(v, b) == b < 31 /\ (v \div 2^b) % 2 = 1

\* A constructor that keeps the bits the DF_1_* flags name (bits 0 to 27),
\* like from_bits_truncate.
from_bits_unchecked_Truncate(v) == { b \in 0..27 : Bit(v, b) }

\* DynamicFlags1::from_bits_unchecked: a DynamicFlags1 is the set of the
\* bits that are set in a 64-bit word; every bit of the word is taken over.
from_bits_unchecked(v) == { b \in 0..63 : Bit(v, b) }

\* DynamicFlags1::bits: the word whose set bits are those of the flags.
RECURSIVE bits(_)
bits(flags1) ==
    IF flags1 = {} THEN 0
    ELSE LET b == CHOOSE b \in flags1 : TRUE
         IN 2^b + bits(flags1 \ {b})

\* DynamicFlags1::contains: every bit of flag is set in flags1.
contains(flags1, flag) == flag \subseteq flags1

\* Largest number of entries of the dynamic segment of an input region.
MaxDyn == 2

\* Result of Dynamic::get_tag(): Ok of one of the tags parse_dynamic has
\* an arm for, Ok of a tag it has no arm for (Rel for DT_REL, RelSize for
\* DT_RELSZ, and Flags or Flags1 in the branch that does not match it), or
\* Err ("Invalid" stands for a d_tag that cannot be decoded).
DynTags ==
    {"Needed", "Rela", "RelaSize", "Rel", "RelSize", "Flags", "Flags1", "Invalid"}

\* The values of the entry at position i of a dynamic segment: a flag word
\* with DF_1_NOW alone, with DF_1_NOW and DF_1_PIE, or with DF_1_NOW and
\* a bit that is not a named flag; any other value
\* differs from entry to entry and from the 0 the fields start with.
DynValues(i, tag) ==
    IF tag \in {"Flags", "Flags1"} THEN {1, PIE + 1, UnnamedBit + 1}
    ELSE {64 * i}

\* All dynamic segments of n entries.
DynTables(n) ==
    { es \in [1..n -> [tag : DynTags, val : {1, PIE + 1, UnnamedBit + 1} \cup {64 * i : i \in 1..n}]] :
        \A i \in 1..n : es[i].val \in DynValues(i, es[i].tag) }

\* Result of ProgramHeader::get_type() in the regions of ElfBinary::new:
\* Load stands for every type the loop of new passes over.
NewPhTypes == {"Load", "Dynamic", "Invalid"}

NewTables ==
    UNION { { [i \in 1..n |-> PhAt(i, ts[i])] : ts \in [1..n -> NewPhTypes] } :
            n \in 0..MaxPh }

\* The table has a PT_DYNAMIC program header.
HasDynamic(phdrs) == \E i \in DOMAIN phdrs : phdrs[i].type = "Dynamic"

\* The byte regions ElfBinary::new is applied to: regions without the ELF
\* magic or shorter than the file header, ELF files without a PT_DYNAMIC
\* program header, and ELF files with one and every dynamic segment.
Regions ==
    { r \in [magic : BOOLEAN, long_enough : BOOLEAN, class : Classes,
             phdrs : {<<>>}, dyn_entries : {<<>>}] :
        ~(r.magic /\ r.long_enough) }
    \cup [magic : {TRUE}, long_enough : {TRUE}, class : Classes,
          phdrs : {t \in NewTables : ~HasDynamic(t)}, dyn_entries : {<<>>}]
    \cup [magic : {TRUE}, long_enough : {TRUE}, class : Classes,
          phdrs : {t \in NewTables : HasDynamic(t)},
          dyn_entries : UNION { DynTables(n) : n \in 0..MaxDyn }]

\* A parser that does not look at the magic.
ElfFile_new_NoMagicTest(r) ==
    IF ~r.long_enough THEN Err(ElfParser)
    ELSE Ok

\* ElfFile::new(region)?: the ELF-structure parser rejects a region that
\* is shorter than the file header or does not start with the ELF magic.
\* Its other checks are outside the model: the regions of the model pass
\* them.
ElfFile_new(r) ==
    IF ~r.long_enough THEN Err(ElfParser)
    ELSE IF ~r.magic THEN Err(ElfParser)
    ELSE Ok

\* ProgramHeader::get_data of a PT_DYNAMIC header: the shape of the
\* entries follows from the class of the file.
SegmentData(r) == IF r.class = "SixtyFour" THEN "Dynamic64" ELSE "Dynamic32"

\* The locals of parse_dynamic before the walk.
DynamicInfo0 == [flags1 |-> {}, rela |-> 0, rela_size |-> 0]

\* A Dynamic64 branch that keeps the first address and the first size it
\* has recorded.
DynEntry64_FirstWins(info, e) ==
    IF e.tag = "Rela"
    THEN (IF info.rela = 0 THEN [info EXCEPT !.rela = e.val] ELSE info)
    ELSE IF e.tag = "RelaSize"
    THEN (IF info.rela_size = 0 THEN [info EXCEPT !.rela_size = e.val] ELSE info)
    ELSE IF e.tag = "Flags1"
    THEN [info EXCEPT !.flags1 = from_bits_unchecked(e.val)]
    ELSE info

\* A Dynamic64 branch that takes the value of a DT_NEEDED entry for the
\* address of the relocation table.
DynEntry64_NeededAsRela(info, e) ==
    IF e.tag \in {"Rela", "Needed"} THEN [info EXCEPT !.rela = e.val]
    ELSE IF e.tag = "RelaSize" THEN [info EXCEPT !.rela_size = e.val]
    ELSE IF e.tag = "Flags1"
    THEN [info EXCEPT !.flags1 = from_bits_unchecked(e.val)]
    ELSE info

\* The match on the tag in the Dynamic64 branch of parse_dynamic.
DynEntry64(info, e) ==
    IF e.tag = "Rela" THEN [info EXCEPT !.rela = e.val]
    ELSE IF e.tag = "RelaSize" THEN [info EXCEPT !.rela_size = e.val]
    ELSE IF e.tag = "Flags1"
    THEN [info EXCEPT !.flags1 = from_bits_unchecked(e.val)]
    ELSE info

\* The match on the tag in the Dynamic32 branch of parse_dynamic; the
\* values are widened to 64 bits.
DynEntry32(info, e) ==
    IF e.tag = "Rela" THEN [info EXCEPT !.rela = e.val]
    ELSE IF e.tag = "RelaSize" THEN [info EXCEPT !.rela_size = e.val]
    ELSE IF e.tag = "Flags"
    THEN [info EXCEPT !.flags1 = from_bits_unchecked(e.val)]
    ELSE info

\* The walk of parse_dynamic over the entries from position i on:
\* get_tag()? on every entry, then the match of the branch.
RECURSIVE DynWalk(_, _, _, _)
DynWalk(data, entries, i, info) ==
    IF i > Len(entries) THEN OkVal(Some(info))
    ELSE IF entries[i].tag = "Invalid" THEN Err(ElfParser)
    ELSE DynWalk(data, entries, i + 1,
                 IF data = "Dynamic64" THEN DynEntry64(info, entries[i])
                 ELSE DynEntry32(info, entries[i]))

\* The dynamic segment of every PT_DYNAMIC program header after the first
\* one: its DT_RELA value is the value of no entry of a first segment.
LaterSegment ==
    <<[tag |-> "Rela", val |-> 8], [tag |-> "Flags1", val |-> PIE + 1]>>

\* The entries of the dynamic segment of the PT_DYNAMIC header at
\* position i: those of the region for the first such header.
DynEntries(r, i) ==
    IF \A j \in 1..(i - 1) : r.phdrs[j].type # "Dynamic"
    THEN r.dyn_entries
    ELSE LaterSegment

\* A loop that parses the last PT_DYNAMIC header of the table.
dynamic_header_Last(phdrs) ==
    CHOOSE i \in DOMAIN phdrs :
        /\ phdrs[i].type = "Dynamic"
        /\ \A j \in DOMAIN phdrs : j > i => phdrs[j].type # "Dynamic"

\* The header the loop of ElfBinary::new hands to parse_dynamic: the loop
\* goes in file order and leaves with `break` after the first PT_DYNAMIC
\* header.
dynamic_header(phdrs) ==
    CHOOSE i \in DOMAIN phdrs :
        /\ phdrs[i].type = "Dynamic"
        /\ \A j \in 1..(i - 1) : phdrs[j].type # "Dynamic"

\* ElfBinary::parse_dynamic for the header at position i.
parse_dynamic(r, i) ==
    IF SegmentData(r) \in {"Dynamic64", "Dynamic32"}
    THEN DynWalk(SegmentData(r), DynEntries(r, i), 1, DynamicInfo0)
    ELSE Err("UnsupportedSectionData")

\* A constructor that gives a binary without PT_DYNAMIC program header an
\* empty DynamicInfo.
ElfBinary_new_EmptyInfo(r) ==
    IF ElfFile_new(r) # Ok THEN ElfFile_new(r)
    ELSE IF NewScan(r.phdrs, 1) # Ok THEN NewScan(r.phdrs, 1)
    ELSE IF ~HasDynamic(r.phdrs) THEN OkVal([dynamic |-> Some(DynamicInfo0)])
    ELSE IF ~parse_dynamic(r, dynamic_header(r.phdrs)).ok
    THEN parse_dynamic(r, dynamic_header(r.phdrs))
    ELSE OkVal([dynamic |-> parse_dynamic(r, dynamic_header(r.phdrs)).val])

\* ElfBinary::new: the ElfBinary holds the region and the DynamicInfo of
\* the first PT_DYNAMIC program header.
ElfBinary_new(r) ==
    IF ElfFile_new(r) # Ok THEN ElfFile_new(r)
    ELSE IF NewScan(r.phdrs, 1) # Ok THEN NewScan(r.phdrs, 1)
    ELSE IF ~HasDynamic(r.phdrs) THEN OkVal([dynamic |-> None])
    ELSE IF ~parse_dynamic(r, dynamic_header(r.phdrs)).ok
    THEN parse_dynamic(r, dynamic_header(r.phdrs))
    ELSE OkVal([dynamic |-> parse_dynamic(r, dynamic_header(r.phdrs)).val])

\* ElfBinary::is_pie
is_pie(binary) ==
    IF binary.dynamic = None THEN FALSE
    ELSE contains(binary.dynamic[1].flags1, from_bits_unchecked(PIE))

\* A byte region, before ElfBinary::new is applied to it.
InitNew ==
    /\ region \in Regions
    /\ dynamic = None
    /\ earlier = None
    /\ file = None
    /\ reloc = None
    /\ pc = "new"
    /\ ph = 1
    /\ rel = 1
    /\ calls = <<>>
    /\ result = None

\* ElfBinary::new(region)
New ==
    /\ pc = "new"
    /\ result' = Some(ElfBinary_new(region))
    /\ pc' = "done"
    /\ UNCHANGED <<file, dynamic, earlier, region, reloc, ph, rel, calls>>

NextNew == New

SpecNew == InitNew /\ [][NextNew]_vars

\* ================================================ the relocation tables
\* A value of a relocation-type enumeration: a named variant, or
\* Unknown(n) with the number it was made from.
Named(v) == [variant |-> v]
Unknown(n) == [variant |-> "Unknown", n |-> n]

\* A table whose catch-all arm forgets the number.
x86_RelocationTypes_from_NumberLost(typ) ==
    CASE typ = 0 -> Named("R_386_NONE")
      [] typ = 1 -> Named("R_386_PC32")
      [] typ = 2 -> Named("R_386_32")
      [] typ = 3 -> Named("R_386_GOT32")
      [] typ = 4 -> Named("R_386_PLT32")
      [] typ = 5 -> Named("R_386_COPY")
      [] typ = 6 -> Named("R_386_GLOB_DAT")
      [] typ = 7 -> Named("R_386_JMP_SLOT")
      [] typ = 8 -> Named("R_386_RELATIVE")
      [] typ = 9 -> Named("R_386_GOTOFF")
      [] typ = 10 -> Named("R_386_GOTPC")
      [] typ = 11 -> Named("R_386_32PLT")
      [] typ = 20 -> Named("R_386_16")
      [] typ = 21 -> Named("R_386_PC16")
      [] typ = 22 -> Named("R_386_8")
      [] typ = 23 -> Named("R_386_PC8")
      [] typ = 38 -> Named("R_386_SIZE32")
      [] OTHER -> Unknown(0)

\* arch::x86::RelocationTypes::from
x86_RelocationTypes_from(typ) ==
    CASE typ = 0 -> Named("R_386_NONE")
      [] typ = 1 -> Named("R_386_PC32")
      [] typ = 2 -> Named("R_386_32")
      [] typ = 3 -> Named("R_386_GOT32")
      [] typ = 4 -> Named("R_386_PLT32")
      [] typ = 5 -> Named("R_386_COPY")
      [] typ = 6 -> Named("R_386_GLOB_DAT")
      [] typ = 7 -> Named("R_386_JMP_SLOT")
      [] typ = 8 -> Named("R_386_RELATIVE")
      [] typ = 9 -> Named("R_386_GOTOFF")
      [] typ = 10 -> Named("R_386_GOTPC")
      [] typ = 11 -> Named("R_386_32PLT")
      [] typ = 20 -> Named("R_386_16")
      [] typ = 21 -> Named("R_386_PC16")
      [] typ = 22 -> Named("R_386_8")
      [] typ = 23 -> Named("R_386_PC8")
      [] typ = 38 -> Named("R_386_SIZE32")
      [] OTHER -> Unknown(typ)

\* TypeRela64::from, the table of x86_64
TypeRela64_from(typ) ==
    CASE typ = 0 -> Named("R_NONE")
      [] typ = 1 -> Named("R_64")
      [] typ = 2 -> Named("R_PC32")
      [] typ = 3 -> Named("R_GOT32")
      [] typ = 4 -> Named("R_PLT32")
      [] typ = 5 -> Named("R_COPY")
      [] typ = 6 -> Named("R_GLOB_DAT")
      [] typ = 7 -> Named("R_JMP_SLOT")
      [] typ = 8 -> Named("R_RELATIVE")
      [] typ = 9 -> Named("R_GOTPCREL")
      [] typ = 10 -> Named("R_32")
      [] typ = 11 -> Named("R_32S")
      [] typ = 12 -> Named("R_16")
      [] typ = 13 -> Named("R_PC16")
      [] typ = 14 -> Named("R_8")
      [] typ = 15 -> Named("R_PC8")
      [] typ = 16 -> Named("R_DTPMOD64")
      [] typ = 17 -> Named("R_DTPOFF64")
      [] typ = 18 -> Named("R_TPOFF64")
      [] typ = 19 -> Named("R_TLSGD")
      [] typ = 20 -> Named("R_TLSLD")
      [] typ = 21 -> Named("R_DTPOFF32")
      [] typ = 22 -> Named("R_GOTTPOFF")
      [] typ = 23 -> Named("R_TPOFF32")
      [] OTHER -> Unknown(typ)

\* arch::arm::RelocationTypes::from
arm_RelocationTypes_from(typ) ==
    CASE typ = 0 -> Named("R_ARM_NONE")
      [] typ = 1 -> Named("R_ARM_PC24")
      [] typ = 2 -> Named("R_ARM_ABS32")
      [] typ = 3 -> Named("R_ARM_REL32")
      [] typ = 4 -> Named("R_ARM_LDR_PC_G0")
      [] typ = 5 -> Named("R_ARM_ABS16")
      [] typ = 6 -> Named("R_ARM_ABS12")
      [] typ = 7 -> Named("R_ARM_THM_ABS5")
      [] typ = 8 -> Named("R_ARM_ABS8")
      [] typ = 9 -> Named("R_ARM_SBREL32")
      [] typ = 10 -> Named("R_ARM_THM_CALL")
      [] typ = 11 -> Named("R_ARM_THM_PC8")
      [] typ = 12 -> Named("R_ARM_BREL_ADJ")
      [] typ = 13 -> Named("R_ARM_TLS_DESC")
      [] typ = 14 -> Named("R_ARM_THM_SWI8")
      [] typ = 15 -> Named("R_ARM_XPC25")
      [] typ = 16 -> Named("R_ARM_THM_XPC22")
      [] typ = 17 -> Named("R_ARM_TLS_DTPMOD32")
      [] typ = 18 -> Named("R_ARM_TLS_DTPOFF32")
      [] typ = 19 -> Named("R_ARM_TLS_TPOFF32")
      [] typ = 20 -> Named("R_ARM_COPY")
      [] typ = 21 -> Named("R_ARM_GLOB_DAT")
      [] typ = 22 -> Named("R_ARM_JUMP_SLOT")
      [] typ = 23 -> Named("R_ARM_RELATIVE")
      [] typ = 24 -> Named("R_ARM_GOTOFF32")
      [] typ = 25 -> Named("R_ARM_BASE_PREL")
      [] typ = 26 -> Named("R_ARM_GOT_BREL")
      [] typ = 27 -> Named("R_ARM_PLT32")
      [] typ = 28 -> Named("R_ARM_CALL")
      [] typ = 29 -> Named("R_ARM_JUMP24")
      [] typ = 30 -> Named("R_ARM_THM_JUMP24")
      [] typ = 31 -> Named("R_ARM_BASE_ABS")
      [] typ = 32 -> Named("R_ARM_ALU_PCREL_7_0")
      [] typ = 33 -> Named("R_ARM_ALU_PCREL_15_8")
      [] typ = 34 -> Named("R_ARM_ALU_PCREL_23_15")
      [] typ = 35 -> Named("R_ARM_LDR_SBREL_11_0_NC")
      [] typ = 36 -> Named("R_ARM_ALU_SBREL_19_12_NC")
      [] typ = 37 -> Named("R_ARM_ALU_SBREL_27_20_CK")
      [] typ = 38 -> Named("R_ARM_TARGET1")
      [] typ = 39 -> Named("R_ARM_SBREL31")
      [] typ = 40 -> Named("R_ARM_V4BX")
      [] typ = 41 -> Named("R_ARM_TARGET2")
      [] typ = 42 -> Named("R_ARM_PREL31")
      [] typ = 43 -> Named("R_ARM_MOVW_ABS_NC")
      [] typ = 44 -> Named("R_ARM_MOVT_ABS")
      [] typ = 45 -> Named("R_ARM_MOVW_PREL_NC")
      [] typ = 46 -> Named("R_ARM_MOVT_PREL")
      [] typ = 47 -> Named("R_ARM_THM_MOVW_ABS_NC")
      [] typ = 48 -> Named("R_ARM_THM_MOVT_ABS")
      [] typ = 49 -> Named("R_ARM_THM_MOVW_PREL_NC")
      [] typ = 50 -> Named("R_ARM_THM_MOVT_PREL")
      [] typ = 51 -> Named("R_ARM_THM_JUMP19")
      [] typ = 52 -> Named("R_ARM_THM_JUMP6")
      [] typ = 53 -> Named("R_ARM_THM_ALU_PREL_11_0")
      [] typ = 54 -> Named("R_ARM_THM_PC12")
      [] typ = 55 -> Named("R_ARM_ABS32_NOI")
      [] typ = 56 -> Named("R_ARM_REL32_NOI")
      [] typ = 57 -> Named("R_ARM_ALU_PC_G0_NC")
      [] typ = 58 -> Named("R_ARM_ALU_PC_G0")
      [] typ = 59 -> Named("R_ARM_ALU_PC_G1_NC")
      [] typ = 60 -> Named("R_ARM_ALU_PC_G1")
      [] typ = 61 -> Named("R_ARM_ALU_PC_G2")
      [] typ = 62 -> Named("R_ARM_LDR_PC_G1")
      [] typ = 63 -> Named("R_ARM_LDR_PC_G2")
      [] typ = 64 -> Named("R_ARM_LDRS_PC_G0")
      [] typ = 65 -> Named("R_ARM_LDRS_PC_G1")
      [] typ = 66 -> Named("R_ARM_LDRS_PC_G2")
      [] typ = 67 -> Named("R_ARM_LDC_PC_G0")
      [] typ = 68 -> Named("R_ARM_LDC_PC_G1")
      [] typ = 69 -> Named("R_ARM_LDC_PC_G2")
      [] typ = 70 -> Named("R_ARM_ALU_SB_G0_NC")
      [] typ = 71 -> Named("R_ARM_ALU_SB_G0")
      [] typ = 72 -> Named("R_ARM_ALU_SB_G1_NC")
      [] typ = 73 -> Named("R_ARM_ALU_SB_G1")
      [] typ = 74 -> Named("R_ARM_ALU_SB_G2")
      [] typ = 75 -> Named("R_ARM_LDR_SB_G0")
      [] typ = 76 -> Named("R_ARM_LDR_SB_G1")
      [] typ = 77 -> Named("R_ARM_LDR_SB_G2")
      [] typ = 78 -> Named("R_ARM_LDRS_SB_G0")
      [] typ = 79 -> Named("R_ARM_LDRS_SB_G1")
      [] typ = 80 -> Named("R_ARM_LDRS_SB_G2")
      [] typ = 81 -> Named("R_ARM_LDC_SB_G0")
      [] typ = 82 -> Named("R_ARM_LDC_SB_G1")
      [] typ = 83 -> Named("R_ARM_LDC_SB_G2")
      [] typ = 84 -> Named("R_ARM_MOVW_BREL_NC")
      [] typ = 85 -> Named("R_ARM_MOVT_BREL")
      [] typ = 86 -> Named("R_ARM_MOVW_BREL")
      [] typ = 87 -> Named("R_ARM_THM_MOVW_BREL_NC")
      [] typ = 88 -> Named("R_ARM_THM_MOVT_BREL")
      [] typ = 89 -> Named("R_ARM_THM_MOVW_BREL")
      [] typ = 90 -> Named("R_ARM_TLS_GOTDESC")
      [] typ = 91 -> Named("R_ARM_TLS_CALL")
      [] typ = 92 -> Named("R_ARM_TLS_DESCSEQ")
      [] typ = 93 -> Named("R_ARM_THM_TLS_CALL")
      [] typ = 94 -> Named("R_ARM_PLT32_ABS")
      [] typ = 95 -> Named("R_ARM_GOT_ABS")
      [] typ = 96 -> Named("R_ARM_GOT_PREL")
      [] typ = 97 -> Named("R_ARM_GOT_BREL12")
      [] typ = 98 -> Named("R_ARM_GOTOFF12")
      [] typ = 99 -> Named("R_ARM_GOTRELAX")
      [] typ = 100 -> Named("R_ARM_GNU_VTENTRY")
      [] typ = 101 -> Named("R_ARM_GNU_VTINHERIT")
      [] typ = 102 -> Named("R_ARM_THM_JUMP11")
      [] typ = 103 -> Named("R_ARM_THM_JUMP8")
      [] typ = 104 -> Named("R_ARM_TLS_GD32")
      [] typ = 105 -> Named("R_ARM_TLS_LDM32")
      [] typ = 106 -> Named("R_ARM_TLS_LDO32")
      [] typ = 107 -> Named("R_ARM_TLS_IE32")
      [] typ = 108 -> Named("R_ARM_TLS_LE32")
      [] typ = 109 -> Named("R_ARM_TLS_LDO12")
      [] typ = 110 -> Named("R_ARM_TLS_LE12")
      [] typ = 111 -> Named("R_ARM_TLS_IE12GP")
      [] typ = 112 -> Named("R_ARM_PRIVATE_0")
      [] typ = 113 -> Named("R_ARM_PRIVATE_1")
      [] typ = 114 -> Named("R_ARM_PRIVATE_2")
      [] typ = 115 -> Named("R_ARM_PRIVATE_3")
      [] typ = 116 -> Named("R_ARM_PRIVATE_4")
      [] typ = 117 -> Named("R_ARM_PRIVATE_5")
      [] typ = 118 -> Named("R_ARM_PRIVATE_6")
      [] typ = 119 -> Named("R_ARM_PRIVATE_7")
      [] typ = 120 -> Named("R_ARM_PRIVATE_8")
      [] typ = 121 -> Named("R_ARM_PRIVATE_9")
      [] typ = 122 -> Named("R_ARM_PRIVATE_10")
      [] typ = 123 -> Named("R_ARM_PRIVATE_11")
      [] typ = 124 -> Named("R_ARM_PRIVATE_12")
      [] typ = 125 -> Named("R_ARM_PRIVATE_13")
      [] typ = 126 -> Named("R_ARM_PRIVATE_14")
      [] typ = 127 -> Named("R_ARM_PRIVATE_15")
      [] typ = 128 -> Named("R_ARM_ME_TOO")
      [] typ = 129 -> Named("R_ARM_THM_TLS_DESCSEQ16")
      [] typ = 130 -> Named("R_ARM_THM_TLS_DESCSEQ32")
      [] typ = 131 -> Named("R_ARM_THM_GOT_BREL12")
      [] typ = 132 -> Named("R_ARM_THM_ALU_ABS_G0_NC")
      [] typ = 133 -> Named("R_ARM_THM_ALU_ABS_G1_NC")
      [] typ = 134 -> Named("R_ARM_THM_ALU_ABS_G2_NC")
      [] typ = 135 -> Named("R_ARM_THM_ALU_ABS_G3")
      [] OTHER -> Unknown(typ)

\* arch::riscv::RelocationTypes::from
riscv_RelocationTypes_from(typ) ==
    CASE typ = 0 -> Named("R_RISCV_NONE")
      [] typ = 1 -> Named("R_RISCV_32")
      [] typ = 2 -> Named("R_RISCV_64")
      [] typ = 3 -> Named("R_RISCV_RELATIVE")
      [] typ = 4 -> Named("R_RISCV_COPY")
      [] typ = 5 -> Named("R_RISCV_JUMP_SLOT")
      [] typ = 6 -> Named("R_RISCV_TLS_DTPMOD32")
      [] typ = 7 -> Named("R_RISCV_TLS_DTPMOD64")
      [] typ = 8 -> Named("R_RISCV_TLS_DTPREL32")
      [] typ = 9 -> Named("R_RISCV_TLS_DTPREL64")
      [] typ = 10 -> Named("R_RISCV_TLS_TPREL32")
      [] typ = 11 -> Named("R_RISCV_TLS_TPREL64")
      [] typ = 16 -> Named("R_RISCV_BRANCH")
      [] typ = 17 -> Named("R_RISCV_JAL")
      [] typ = 18 -> Named("R_RISCV_CALL")
      [] typ = 19 -> Named("R_RISCV_CALL_PLT")
      [] typ = 20 -> Named("R_RISCV_GOT_HI20")
      [] typ = 21 -> Named("R_RISCV_TLS_GOT_HI20")
      [] typ = 22 -> Named("R_RISCV_TLS_GD_HI20")
      [] typ = 23 -> Named("R_RISCV_PCREL_HI20")
      [] typ = 24 -> Named("R_RISCV_PCREL_LO12_I")
      [] typ = 25 -> Named("R_RISCV_PCREL_LO12_S")
      [] typ = 26 -> Named("R_RISCV_HI20")
      [] typ = 27 -> Named("R_RISCV_LO12_I")
      [] typ = 28 -> Named("R_RISCV_LO12_S")
      [] typ = 29 -> Named("R_RISCV_TPREL_HI20")
      [] typ = 30 -> Named("R_RISCV_TPREL_LO12_I")
      [] typ = 31 -> Named("R_RISCV_TPREL_LO12_S")
      [] typ = 32 -> Named("R_RISCV_TPREL_ADD")
      [] typ = 33 -> Named("R_RISCV_ADD8")
      [] typ = 34 -> Named("R_RISCV_ADD16")
      [] typ = 35 -> Named("R_RISCV_ADD32")
      [] typ = 36 -> Named("R_RISCV_ADD64")
      [] typ = 37 -> Named("R_RISCV_SUB8")
      [] typ = 38 -> Named("R_RISCV_SUB16")
      [] typ = 39 -> Named("R_RISCV_SUB32")
      [] typ = 40 -> Named("R_RISCV_SUB64")
      [] typ = 41 -> Named("R_RISCV_GNU_VTINHERIT")
      [] typ = 42 -> Named("R_RISCV_GNU_VTENTRY")
      [] typ = 43 -> Named("R_RISCV_ALIGN")
      [] typ = 44 -> Named("R_RISCV_RVC_BRANCH")
      [] typ = 45 -> Named("R_RISCV_RVC_JUMP")
      [] typ = 46 -> Named("R_RISCV_RVC_LUI")
      [] typ = 47 -> Named("R_RISCV_GPREL_I")
      [] typ = 48 -> Named("R_RISCV_GPREL_S")
      [] typ = 49 -> Named("R_RISCV_TPREL_I")
      [] typ = 50 -> Named("R_RISCV_TPREL_S")
      [] typ = 51 -> Named("R_RISCV_RELAX")
      [] typ = 52 -> Named("R_RISCV_SUB6")
      [] typ = 53 -> Named("R_RISCV_SET6")
      [] typ = 54 -> Named("R_RISCV_SET8")
      [] typ = 55 -> Named("R_RISCV_SET16")
      [] typ = 56 -> Named("R_RISCV_SET32")
      [] OTHER -> Unknown(typ)

\* The tables of src/.
Archs == {"x86", "x86_64", "arm", "riscv"}

\* A dispatch that takes number 10 of the x86_64 table for number 1.
RelocationTypes_from_Folded(arch, typ) ==
    CASE arch = "x86" -> x86_RelocationTypes_from(typ)
      [] arch = "x86_64" -> TypeRela64_from(IF typ = 10 THEN 1 ELSE typ)
      [] arch = "arm" -> arm_RelocationTypes_from(typ)
      [] arch = "riscv" -> riscv_RelocationTypes_from(typ)

\* The `from` function of a table.
RelocationTypes_from(arch, typ) ==
    CASE arch = "x86" -> x86_RelocationTypes_from(typ)
      [] arch = "x86_64" -> TypeRela64_from(typ)
      [] arch = "arm" -> arm_RelocationTypes_from(typ)
      [] arch = "riscv" -> riscv_RelocationTypes_from(typ)

\* Largest relocation number a `from` function is applied to: beyond the
\* last number of the largest table (ARM, 135).
MaxNumber == 140

\* ------------------------------------------------ the relocation enums
\* The named variants of enum RelocationTypes of x86, in declaration order.
x86_RelocationTypes ==
    <<"R_386_NONE", "R_386_32", "R_386_PC32", "R_386_GOT32", "R_386_PLT32",
      "R_386_COPY", "R_386_GLOB_DAT", "R_386_JMP_SLOT", "R_386_RELATIVE",
      "R_386_GOTOFF", "R_386_GOTPC", "R_386_32PLT", "R_386_16", "R_386_PC16",
      "R_386_8", "R_386_PC8", "R_386_SIZE32">>

\* The named variants of enum TypeRela64 (x86_64).
TypeRela64 ==
    <<"R_NONE", "R_64", "R_PC32", "R_GOT32", "R_PLT32", "R_COPY",
      "R_GLOB_DAT", "R_JMP_SLOT", "R_RELATIVE", "R_GOTPCREL", "R_32", "R_32S",
      "R_16", "R_PC16", "R_8", "R_PC8", "R_DTPMOD64", "R_DTPOFF64",
      "R_TPOFF64", "R_TLSGD", "R_TLSLD", "R_DTPOFF32", "R_GOTTPOFF",
      "R_TPOFF32">>

\* The named variants of enum RelocationTypes of ARM.
arm_RelocationTypes ==
    <<"R_ARM_NONE", "R_ARM_PC24", "R_ARM_ABS32", "R_ARM_REL32",
      "R_ARM_LDR_PC_G0", "R_ARM_ABS16", "R_ARM_ABS12", "R_ARM_THM_ABS5",
      "R_ARM_ABS8", "R_ARM_SBREL32", "R_ARM_THM_CALL", "R_ARM_THM_PC8",
      "R_ARM_BREL_ADJ", "R_ARM_TLS_DESC", "R_ARM_THM_SWI8", "R_ARM_XPC25",
      "R_ARM_THM_XPC22", "R_ARM_TLS_DTPMOD32", "R_ARM_TLS_DTPOFF32",
      "R_ARM_TLS_TPOFF32", "R_ARM_COPY", "R_ARM_GLOB_DAT", "R_ARM_JUMP_SLOT",
      "R_ARM_RELATIVE", "R_ARM_GOTOFF32", "R_ARM_BASE_PREL", "R_ARM_GOT_BREL",
      "R_ARM_PLT32", "R_ARM_CALL", "R_ARM_JUMP24", "R_ARM_THM_JUMP24",
      "R_ARM_BASE_ABS", "R_ARM_ALU_PCREL_7_0", "R_ARM_ALU_PCREL_15_8",
      "R_ARM_ALU_PCREL_23_15", "R_ARM_LDR_SBREL_11_0_NC",
      "R_ARM_ALU_SBREL_19_12_NC", "R_ARM_ALU_SBREL_27_20_CK", "R_ARM_TARGET1",
      "R_ARM_SBREL31", "R_ARM_V4BX", "R_ARM_TARGET2", "R_ARM_PREL31",
      "R_ARM_MOVW_ABS_NC", "R_ARM_MOVT_ABS", "R_ARM_MOVW_PREL_NC",
      "R_ARM_MOVT_PREL", "R_ARM_THM_MOVW_ABS_NC", "R_ARM_THM_MOVT_ABS",
      "R_ARM_THM_MOVW_PREL_NC", "R_ARM_THM_MOVT_PREL", "R_ARM_THM_JUMP19",
      "R_ARM_THM_JUMP6", "R_ARM_THM_ALU_PREL_11_0", "R_ARM_THM_PC12",
      "R_ARM_ABS32_NOI", "R_ARM_REL32_NOI", "R_ARM_ALU_PC_G0_NC",
      "R_ARM_ALU_PC_G0", "R_ARM_ALU_PC_G1_NC", "R_ARM_ALU_PC_G1",
      "R_ARM_ALU_PC_G2", "R_ARM_LDR_PC_G1", "R_ARM_LDR_PC_G2",
      "R_ARM_LDRS_PC_G0", "R_ARM_LDRS_PC_G1", "R_ARM_LDRS_PC_G2",
      "R_ARM_LDC_PC_G0", "R_ARM_LDC_PC_G1", "R_ARM_LDC_PC_G2",
      "R_ARM_ALU_SB_G0_NC", "R_ARM_ALU_SB_G0", "R_ARM_ALU_SB_G1_NC",
      "R_ARM_ALU_SB_G1", "R_ARM_ALU_SB_G2", "R_ARM_LDR_SB_G0",
      "R_ARM_LDR_SB_G1", "R_ARM_LDR_SB_G2", "R_ARM_LDRS_SB_G0",
      "R_ARM_LDRS_SB_G1", "R_ARM_LDRS_SB_G2", "R_ARM_LDC_SB_G0",
      "R_ARM_LDC_SB_G1", "R_ARM_LDC_SB_G2", "R_ARM_MOVW_BREL_NC",
      "R_ARM_MOVT_BREL", "R_ARM_MOVW_BREL", "R_ARM_THM_MOVW_BREL_NC",
      "R_ARM_THM_MOVT_BREL", "R_ARM_THM_MOVW_BREL", "R_ARM_TLS_GOTDESC",
      "R_ARM_TLS_CALL", "R_ARM_TLS_DESCSEQ", "R_ARM_THM_TLS_CALL",
      "R_ARM_PLT32_ABS", "R_ARM_GOT_ABS", "R_ARM_GOT_PREL",
      "R_ARM_GOT_BREL12", "R_ARM_GOTOFF12", "R_ARM_GOTRELAX",
      "R_ARM_GNU_VTENTRY", "R_ARM_GNU_VTINHERIT", "R_ARM_THM_JUMP11",
      "R_ARM_THM_JUMP8", "R_ARM_TLS_GD32", "R_ARM_TLS_LDM32",
      "R_ARM_TLS_LDO32", "R_ARM_TLS_IE32", "R_ARM_TLS_LE32",
      "R_ARM_TLS_LDO12", "R_ARM_TLS_LE12", "R_ARM_TLS_IE12GP",
      "R_ARM_PRIVATE_0", "R_ARM_PRIVATE_1", "R_ARM_PRIVATE_2",
      "R_ARM_PRIVATE_3", "R_ARM_PRIVATE_4", "R_ARM_PRIVATE_5",
      "R_ARM_PRIVATE_6", "R_ARM_PRIVATE_7", "R_ARM_PRIVATE_8",
      "R_ARM_PRIVATE_9", "R_ARM_PRIVATE_10", "R_ARM_PRIVATE_11",
      "R_ARM_PRIVATE_12", "R_ARM_PRIVATE_13", "R_ARM_PRIVATE_14",
      "R_ARM_PRIVATE_15", "R_ARM_ME_TOO", "R_ARM_THM_TLS_DESCSEQ16",
      "R_ARM_THM_TLS_DESCSEQ32", "R_ARM_THM_GOT_BREL12",
      "R_ARM_THM_ALU_ABS_G0_NC", "R_ARM_THM_ALU_ABS_G1_NC",
      "R_ARM_THM_ALU_ABS_G2_NC", "R_ARM_THM_ALU_ABS_G3">>

\* The named variants of enum RelocationTypes of RISC-V.
riscv_RelocationTypes ==
    <<"R_RISCV_NONE", "R_RISCV_32", "R_RISCV_64", "R_RISCV_RELATIVE",
      "R_RISCV_COPY", "R_RISCV_JUMP_SLOT", "R_RISCV_TLS_DTPMOD32",
      "R_RISCV_TLS_DTPMOD64", "R_RISCV_TLS_DTPREL32", "R_RISCV_TLS_DTPREL64",
      "R_RISCV_TLS_TPREL32", "R_RISCV_TLS_TPREL64", "R_RISCV_BRANCH",
      "R_RISCV_JAL", "R_RISCV_CALL", "R_RISCV_CALL_PLT", "R_RISCV_GOT_HI20",
      "R_RISCV_TLS_GOT_HI20", "R_RISCV_TLS_GD_HI20", "R_RISCV_PCREL_HI20",
      "R_RISCV_PCREL_LO12_I", "R_RISCV_PCREL_LO12_S", "R_RISCV_HI20",
      "R_RISCV_LO12_I", "R_RISCV_LO12_S", "R_RISCV_TPREL_HI20",
      "R_RISCV_TPREL_LO12_I", "R_RISCV_TPREL_LO12_S", "R_RISCV_TPREL_ADD",
      "R_RISCV_ADD8", "R_RISCV_ADD16", "R_RISCV_ADD32", "R_RISCV_ADD64",
      "R_RISCV_SUB8", "R_RISCV_SUB16", "R_RISCV_SUB32", "R_RISCV_SUB64",
      "R_RISCV_GNU_VTINHERIT", "R_RISCV_GNU_VTENTRY", "R_RISCV_ALIGN",
      "R_RISCV_RVC_BRANCH", "R_RISCV_RVC_JUMP", "R_RISCV_RVC_LUI",
      "R_RISCV_GPREL_I", "R_RISCV_GPREL_S", "R_RISCV_TPREL_I",
      "R_RISCV_TPREL_S", "R_RISCV_RELAX", "R_RISCV_SUB6", "R_RISCV_SET6",
      "R_RISCV_SET8", "R_RISCV_SET16", "R_RISCV_SET32">>

\* The named variants of the enum of an architecture.
RelocationTypes(arch) ==
    CASE arch = "x86" -> x86_RelocationTypes
      [] arch = "x86_64" -> TypeRela64
      [] arch = "arm" -> arm_RelocationTypes
      [] arch = "riscv" -> riscv_RelocationTypes

\* A table and a number to classify.
InitTables ==
    /\ reloc \in [arch : Archs, n : 0..MaxNumber]
    /\ dynamic = None
    /\ earlier = None
    /\ file = None
    /\ region = None
    /\ pc = "from"
    /\ ph = 1
    /\ rel = 1
    /\ calls = <<>>
    /\ result = None

\* RelocationTypes::from(typ)
From ==
    /\ pc = "from"
    /\ result' = Some(RelocationTypes_from(reloc.arch, reloc.n))
    /\ pc' = "done"
    /\ UNCHANGED <<file, dynamic, earlier, region, reloc, ph, rel, calls>>

NextTables == From

SpecTables == InitTables /\ [][NextTables]_vars

\* ============================================ ElfBinary::for_each_symbol
\* The largest number of entries of a .symtab section.
MaxSym == 3

\* The symbols an entry of the table can describe.
Symbols == {"_start", "main"}

\* sh_type of the section named .symtab: a symbol table, a dynamic symbol
\* table, other data, or a type that cannot be decoded, for which get_data
\* returns Err.
SymShTypes == {"SymTab", "DynSym", "ProgBits", "Invalid"}

\* The sections the name .symtab can stand for: none, or a section of one
\* of the types with up to MaxSym entries; one symbol may be entered twice.
SymbolSections ==
    {None} \cup
    { Some([sh_type |-> st, entries |-> es]) :
        st \in SymShTypes,
        es \in UNION { [1..n -> Symbols] : n \in 0..MaxSym } }

\* The binaries for_each_symbol is called on.
SymbolFiles == [class : Classes, symtab : SymbolSections]

\* The state when for_each_symbol is called; calls is the log of the
\* invocations of func.
InitSymbols ==
    /\ file \in SymbolFiles
    /\ dynamic = None
    /\ earlier = None
    /\ region = None
    /\ reloc = None
    /\ pc = "for_each_symbol"
    /\ ph = 1
    /\ rel = 1
    /\ calls = <<>>
    /\ result = None

\* A lookup that takes any section of the file for a symbol table.
FindSymbolTable_AnySection ==
    /\ pc = "for_each_symbol"
    /\ IF file.symtab = None
       THEN Return(Err("SymbolTableNotFound"))
       ELSE IF file.symtab[1].sh_type = "Invalid"
       THEN Return(Err(ElfParser))
       ELSE pc' = "entries" /\ result' = result
    /\ UNCHANGED <<file, dynamic, earlier, region, reloc, ph, rel, calls>>

\* find_section_by_name(".symtab").ok_or(SymbolTableNotFound)?, then
\* get_data(&self.file)?, then the test of the data against the two
\* symbol-table variants.
FindSymbolTable ==
    /\ pc = "for_each_symbol"
    /\ IF file.symtab = None
       THEN Return(Err("SymbolTableNotFound"))
       ELSE IF file.symtab[1].sh_type = "Invalid"
       THEN \* symbol_section.get_data(&self.file)?
            Return(Err(ElfParser))
       ELSE IF get_data(file, file.symtab[1])
                   \in {"SymbolTable64", "SymbolTable32"}
       THEN pc' = "entries" /\ result' = result
       ELSE Return(Err("SymbolTableNotFound"))
    /\ UNCHANGED <<file, dynamic, earlier, region, reloc, ph, rel, calls>>

\* One iteration of `for entry in entries`: func(entry).
SymbolEntry ==
    /\ pc = "entries"
    /\ rel <= Len(file.symtab[1].entries)
    /\ calls' = Append(calls, file.symtab[1].entries[rel])
    /\ rel' = rel + 1
    /\ UNCHANGED <<file, dynamic, earlier, region, reloc, pc, ph, result>>

\* The entries are exhausted: Ok(()).
SymbolsDone ==
    /\ pc = "entries"
    /\ rel > Len(file.symtab[1].entries)
    /\ Return(Ok)
    /\ UNCHANGED <<file, dynamic, earlier, region, reloc, ph, rel, calls>>

NextSymbols ==
    \/ FindSymbolTable
    \/ SymbolEntry
    \/ SymbolsDone

SpecSymbols == InitSymbols /\ [][NextSymbols]_vars

\* ================================================ ElfBinary::interpreter
\* The largest number of bytes of a .interp section.
MaxBytes == 3

\* The bytes of the sections of the model: NUL, '/', and the two bytes of
\* the UTF-8 encoding of U+00E9, the lead byte 0xC3 and the continuation
\* byte 0xA9.
Bytes == {0, 47, 195, 169}

\* sh_type of the section named .interp: program data, a symbol table, or
\* a type that cannot be decoded.
InterpShTypes == {"ProgBits", "SymTab", "Invalid"}

\* The sections the name .interp can stand for.
InterpSections ==
    {None} \cup
    { Some([sh_type |-> st, val |-> val]) :
        st \in InterpShTypes,
        val \in UNION { [1..n -> Bytes] : n \in 0..MaxBytes } }

\* The binaries interpreter is called on.
InterpFiles == [class : Classes, interp : InterpSections]

\* core::str::from_utf8 on the bytes of the model: a byte below 0x80 is a
\* character, a lead byte 0xC2..0xDF takes one continuation byte
\* 0x80..0xBF, and a continuation byte cannot start a character.
RECURSIVE Utf8(_)
Utf8(v) ==
    IF v = <<>> THEN TRUE
    ELSE IF v[1] < 128 THEN Utf8(Tail(v))
    ELSE IF v[1] >= 194 /\ v[1] <= 223 /\ Len(v) >= 2 /\ v[2] >= 128 /\ v[2] <= 191
    THEN Utf8(Tail(Tail(v)))
    ELSE FALSE

\* core::str::from_utf8(v).ok(): the string has the bytes of v.
from_utf8(v) == IF Utf8(v) THEN Some(v) ELSE None

\* ElfBinary::interpreter: the section's data must be SectionData::Undefined
\* of at least two bytes; the last byte is dropped and the rest validated.
interpreter(f) ==
    IF f.interp = None THEN None
    ELSE LET interp_section == f.interp[1]
             val == interp_section.val
         IN IF interp_section.sh_type = "Invalid"
            THEN \* get_data(&self.file).ok()?
                 None
            ELSE IF get_data(f, interp_section) # "Undefined" THEN None
            ELSE IF Len(val) < 2 THEN None
            ELSE from_utf8(SubSeq(val, 1, Len(val) - 1))

\* The state when interpreter is called.
InitInterp ==
    /\ file \in InterpFiles
    /\ dynamic = None
    /\ earlier = None
    /\ region = None
    /\ reloc = None
    /\ pc = "interpreter"
    /\ ph = 1
    /\ rel = 1
    /\ calls = <<>>
    /\ result = None

\* binary.interpreter()
Interpreter ==
    /\ pc = "interpreter"
    /\ result' = Some(interpreter(file))
    /\ pc' = "done"
    /\ UNCHANGED <<file, dynamic, earlier, region, reloc, ph, rel, calls>>

NextInterp == Interpreter

SpecInterp == InitInterp /\ [][NextInterp]_vars

\* ===================================================== the properties
\* ----------------------------------------------------------- vocabulary
\* The calls of one Loader entrypoint, as positions of the call log.
CallsOf(op) == { i \in DOMAIN calls : calls[i].call.op = op }

\* The four groups of the load protocol.
Group(c) ==
    IF c.call.op = "allocate" THEN 1
    ELSE IF c.call.op \in {"load", "tls"} THEN 2
    ELSE IF c.call.op = "relocate" THEN 3
    ELSE 4

\* The address a load, tls or make_readonly call names.
BaseOf(c) == IF c.call.op = "tls" THEN c.call.tdata_start ELSE c.call.base

\* Calls c and d name two program headers, that of c earlier in the file.
InFileOrder(c, d) ==
    \E p, q \in DOMAIN file.phdrs :
        /\ p < q
        /\ file.phdrs[p].virtual_addr = BaseOf(c)
        /\ file.phdrs[q].virtual_addr = BaseOf(d)

\* The sections of the file that exist under one of the two names.
PresentSections ==
    { file.rela_dyn[k] : k \in DOMAIN file.rela_dyn }
        \cup { file.rel_dyn[k] : k \in DOMAIN file.rel_dyn }

\* Relocate calls c and d carry two records of one section, that of c
\* earlier in the section.
InEntryOrder(c, d) ==
    \E sec \in PresentSections : \E p, q \in DOMAIN sec.entries :
        /\ p < q
        /\ sec.entries[p] = c.call.entry.entry
        /\ sec.entries[q] = d.call.entry.entry

\* Every Loader call made so far returned Ok.
AllCallsOk == \A i \in DOMAIN calls : calls[i].res = Ok

\* load has returned Ok(()).
LoadSucceeded == pc = "done" /\ result = Some(Ok)

\* The eligibility conditions of the load protocol, phase 1.
Eligible ==
    /\ file.version = "Current"
    /\ file.data = "LittleEndian"
    /\ file.os_abi \in {"SystemV", "Linux"}
    /\ file.type \in {"Executable", "SharedObject"}

\* The positions of the program headers of one type.
HeadersOf(t) == { p \in DOMAIN file.phdrs : file.phdrs[p].type = t }

\* ------------------------------------------------------------------ C1
\* C1: the Loader calls of a run of load occur in the order allocate (a
\* single call), then load and tls calls in program-header file order,
\* then relocate calls in section entry order, then make_readonly calls in
\* program-header file order; no call of a later group precedes a call of
\* an earlier group.
C1_CallOrder ==
    \A i, j \in DOMAIN calls :
        i < j =>
            /\ Group(calls[i]) <= Group(calls[j])
            /\ Group(calls[i]) # 1 \/ Group(calls[j]) # 1
            /\ (Group(calls[i]) = 2 /\ Group(calls[j]) = 2)
                   => InFileOrder(calls[i], calls[j])
            /\ (Group(calls[i]) = 3 /\ Group(calls[j]) = 3)
                   => InEntryOrder(calls[i], calls[j])
            /\ (Group(calls[i]) = 4 /\ Group(calls[j]) = 4)
                   => InFileOrder(calls[i], calls[j])

\* A successful run over a binary whose first program header is the
\* PT_GNU_RELRO one, followed by PT_TLS and PT_LOAD, with two relocations.
C1_Witness ==
    /\ LoadSucceeded
    /\ Len(file.phdrs) = 3
    /\ file.phdrs[1].type = "GnuRelro"
    /\ file.phdrs[2].type = "Tls"
    /\ file.phdrs[3].type = "Load"
    /\ [i \in DOMAIN calls |-> calls[i].call.op]
           = <<"allocate", "tls", "load", "relocate", "relocate", "make_readonly">>

\* ------------------------------------------------------------------ C2
\* C2: allocate is never invoked more than once; in a run that passes the
\* eligibility check it is invoked exactly once and is the first Loader
\* call, also when the binary has no PT_LOAD header, in which case the
\* sequence it is passed is empty.
C2_AllocateOnce ==
    /\ Cardinality(CallsOf("allocate")) <= 1
    /\ (Eligible /\ pc \notin {"is_loadable", "allocate"})
           => /\ Cardinality(CallsOf("allocate")) = 1
              /\ calls[1].call.op = "allocate"
              /\ (HeadersOf("Load") = {}) => calls[1].call.load_headers = <<>>

\* A finished run over an eligible binary that has program headers but no
\* PT_LOAD one: allocate was called with the empty sequence.
C2_Witness ==
    /\ LoadSucceeded
    /\ file.phdrs # <<>>
    /\ HeadersOf("Load") = {}
    /\ CallsOf("allocate") = {1}
    /\ calls[1].call.load_headers = <<>>

\* ------------------------------------------------------------------ C3
\* The load calls made for the program header at position p.
LoadCallsFor(p) ==
    { i \in CallsOf("load") :
        /\ calls[i].call.base = file.phdrs[p].virtual_addr
        /\ calls[i].call.flags = file.phdrs[p].flags
        /\ calls[i].call.region_len = file.phdrs[p].file_size }

\* Every load call is the call for some PT_LOAD header, and no header has
\* two of them.
LoadCallsMatch ==
    /\ \A i \in CallsOf("load") : \E p \in HeadersOf("Load") : i \in LoadCallsFor(p)
    /\ \A p \in DOMAIN file.phdrs : Cardinality(LoadCallsFor(p)) <= 1
    /\ \A p \in DOMAIN file.phdrs :
           file.phdrs[p].type # "Load" => LoadCallsFor(p) = {}

\* C3 as stated: in a finished run of load (on an eligible binary) in
\* which every Loader call succeeded, each PT_LOAD header has produced
\* exactly one load call with base p_vaddr, flags p_flags and a region of
\* length p_filesz, and no other load call was made.
C3_AsStated ==
    (pc = "done" /\ Eligible /\ AllCallsOk)
        => /\ LoadCallsMatch
           /\ \A p \in HeadersOf("Load") : Cardinality(LoadCallsFor(p)) = 1

\* C3, amended: the same, for the runs over binaries all of whose
\* program-header types can be decoded; and in every state of every run
\* each load call made so far is the only one of some PT_LOAD header.
C3_LoadPerHeader ==
    /\ LoadCallsMatch
    /\ (pc = "done" /\ Eligible /\ AllCallsOk /\ HeadersOf("Invalid") = {})
           => \A p \in HeadersOf("Load") : Cardinality(LoadCallsFor(p)) = 1

\* A successful run over a binary with two PT_LOAD headers around a header
\* of another type.
C3_Witness ==
    /\ LoadSucceeded
    /\ Len(file.phdrs) = 3
    /\ HeadersOf("Load") = {1, 3}
    /\ Cardinality(CallsOf("load")) = 2

\* ------------------------------------------------------------------ C4
\* The make_readonly calls made for the program header at position p.
RelroCallsFor(p) ==
    { i \in CallsOf("make_readonly") :
        /\ calls[i].call.base = file.phdrs[p].virtual_addr
        /\ calls[i].call.size = file.phdrs[p].mem_size }

\* Every make_readonly call is the call for some PT_GNU_RELRO header, no
\* header has two of them, and no relocate call follows one.
RelroCallsMatch ==
    /\ \A i \in CallsOf("make_readonly") :
           \E p \in HeadersOf("GnuRelro") : i \in RelroCallsFor(p)
    /\ \A p \in DOMAIN file.phdrs : Cardinality(RelroCallsFor(p)) <= 1
    /\ \A i \in CallsOf("make_readonly") : \A j \in CallsOf("relocate") : j < i

\* C4 as stated: in a finished run of load (on an eligible binary) in
\* which every Loader call succeeded, each PT_GNU_RELRO header has
\* produced exactly one make_readonly call with (p_vaddr, p_memsz), all of
\* them after the last relocate call.
C4_AsStated ==
    (pc = "done" /\ Eligible /\ AllCallsOk)
        => /\ RelroCallsMatch
           /\ \A p \in HeadersOf("GnuRelro") : Cardinality(RelroCallsFor(p)) = 1

\* C4, amended: the same, for the runs in which load returns Ok; and in
\* every state of every run each make_readonly call made so far is the
\* only one of some PT_GNU_RELRO header and follows every relocate call.
C4_RelroPerHeader ==
    /\ RelroCallsMatch
    /\ LoadSucceeded
           => \A p \in HeadersOf("GnuRelro") : Cardinality(RelroCallsFor(p)) = 1

\* A successful run with two sealed windows and two relocations.
C4_Witness ==
    /\ LoadSucceeded
    /\ Cardinality(HeadersOf("GnuRelro")) = 2
    /\ Cardinality(CallsOf("make_readonly")) = 2
    /\ Cardinality(CallsOf("relocate")) = 2

\* ------------------------------------------------------------------ C5
\* The tls calls made for the program header at position p.
TlsCallsFor(p) ==
    { i \in CallsOf("tls") :
        /\ calls[i].call.tdata_start = file.phdrs[p].virtual_addr
        /\ calls[i].call.tdata_length = file.phdrs[p].file_size
        /\ calls[i].call.total_size = file.phdrs[p].mem_size
        /\ calls[i].call.align = file.phdrs[p].align }

\* Every tls call is the call for some PT_TLS header, no header has two of
\* them, and a PT_TLS header has no load call.
TlsCallsMatch ==
    /\ \A i \in CallsOf("tls") : \E p \in HeadersOf("Tls") : i \in TlsCallsFor(p)
    /\ \A p \in DOMAIN file.phdrs : Cardinality(TlsCallsFor(p)) <= 1
    /\ \A p \in HeadersOf("Tls") : \A i \in CallsOf("load") :
           calls[i].call.base # file.phdrs[p].virtual_addr

\* C5 as stated: in a finished run of load (on an eligible binary) in
\* which every Loader call succeeded, each PT_TLS header has produced
\* exactly one tls call with (p_vaddr, p_filesz, p_memsz, p_align) and no
\* load call.
C5_AsStated ==
    (pc = "done" /\ Eligible /\ AllCallsOk)
        => /\ TlsCallsMatch
           /\ \A p \in HeadersOf("Tls") : Cardinality(TlsCallsFor(p)) = 1

\* C5, amended: the same, for the runs over binaries all of whose
\* program-header types can be decoded; and in every state of every run
\* each tls call made so far is the only one of some PT_TLS header.
C5_TlsPerHeader ==
    /\ TlsCallsMatch
    /\ (pc = "done" /\ Eligible /\ AllCallsOk /\ HeadersOf("Invalid") = {})
           => \A p \in HeadersOf("Tls") : Cardinality(TlsCallsFor(p)) = 1

\* A successful run over a binary with a PT_TLS header between two PT_LOAD
\* headers.
C5_Witness ==
    /\ LoadSucceeded
    /\ Len(file.phdrs) = 3
    /\ HeadersOf("Tls") = {2}
    /\ HeadersOf("Load") = {1, 3}
    /\ CallsOf("tls") = {3}

\* ------------------------------------------------------------------ C6
\* C6: if a Loader call returns an error, load makes no further Loader
\* call and returns exactly that error value; the calls made before it
\* are neither undone nor repeated.  As a property of every step of load:
\* no step is taken once a call has failed; a step leaves the log alone or
\* appends one call that was not made before; and a step whose call fails
\* is the step at which load returns the value of that call.
C6_ErrorAborts ==
    [][ /\ AllCallsOk
        /\ \/ calls' = calls
           \/ /\ Len(calls') = Len(calls) + 1
              /\ SubSeq(calls', 1, Len(calls)) = calls
              /\ \A i \in DOMAIN calls : calls[i].call # calls'[Len(calls')].call
        /\ ~AllCallsOk' => /\ calls' # calls
                           /\ pc' = "done"
                           /\ result' = Some(calls'[Len(calls')].res)
      ]_vars

\* A run in which the relocate call of the second record fails with
\* UnsupportedRelocationEntry after load, tls and relocate calls that
\* succeeded: load has returned that error and the log ends there.
C6_Witness ==
    /\ pc = "done"
    /\ result = Some(Err("UnsupportedRelocationEntry"))
    /\ HeadersOf("GnuRelro") # {}
    /\ [i \in DOMAIN calls |-> calls[i].call.op]
           = <<"allocate", "load", "tls", "relocate", "relocate">>
    /\ [i \in DOMAIN calls |-> calls[i].res.ok] = <<TRUE, TRUE, TRUE, TRUE, FALSE>>

\* ------------------------------------------------------------------ C7
\* The error kinds of the eligibility conditions the binary violates.
ViolatedKinds ==
    { k \in {"UnsupportedElfVersion", "UnsupportedEndianness",
              "UnsupportedAbi", "UnsupportedElfType"} :
        \/ k = "UnsupportedElfVersion" /\ file.version # "Current"
        \/ k = "UnsupportedEndianness" /\ file.data # "LittleEndian"
        \/ k = "UnsupportedAbi" /\ file.os_abi \notin {"SystemV", "Linux"}
        \/ k = "UnsupportedElfType" /\ file.type \notin {"Executable", "SharedObject"} }

\* C7: for a binary that violates an eligibility condition (version not
\* Current, byte order not little-endian, OS/ABI neither SystemV nor
\* Linux, file type neither ET_EXEC nor ET_DYN) load makes no Loader call
\* at all and returns the error kind of a violated condition:
\* UnsupportedElfVersion, UnsupportedEndianness, UnsupportedAbi,
\* UnsupportedElfType respectively.
C7_IneligibleRejected ==
    ~Eligible =>
        /\ calls = <<>>
        /\ pc \in {"is_loadable", "done"}
        /\ pc = "done" => result \in {Some(Err(k)) : k \in ViolatedKinds}

\* load has rejected a binary whose only fault is its OS/ABI and which has
\* segments to load.
C7_Witness ==
    /\ pc = "done"
    /\ ViolatedKinds = {"UnsupportedAbi"}
    /\ HeadersOf("Load") # {}
    /\ result = Some(Err("UnsupportedAbi"))
    /\ calls = <<>>

\* ------------------------------------------------------------------ C8
\* The records of the section load is to take the relocations from:
\* .rela.dyn when it exists, otherwise .rel.dyn, none when neither exists.
SelectedEntries ==
    IF file.rela_dyn # None THEN file.rela_dyn[1].entries
    ELSE IF file.rel_dyn # None THEN file.rel_dyn[1].entries
    ELSE <<>>

\* The records passed to relocate so far, in call order.
RelocatedRecords ==
    LET idx == CallsOf("relocate")
        RECURSIVE Collect(_)
        Collect(i) == IF i > Len(calls) THEN <<>>
                      ELSE IF i \in idx
                           THEN <<calls[i].call.entry.entry>> \o Collect(i + 1)
                           ELSE Collect(i + 1)
    IN Collect(1)

\* A finished run on an eligible binary with decodable program headers in
\* which no Loader call failed.
UndisturbedRun ==
    pc = "done" /\ Eligible /\ AllCallsOk /\ HeadersOf("Invalid") = {}

\* C8 as stated: load calls relocate exactly once per record of .rela.dyn
\* when that section exists, otherwise of .rel.dyn, in entry order; when
\* both exist no record of .rel.dyn is passed; when neither exists no
\* relocate call is made and load runs the make_readonly phase and
\* succeeds.
C8_AsStated ==
    UndisturbedRun =>
        /\ RelocatedRecords = SelectedEntries
        /\ (file.rela_dyn = None /\ file.rel_dyn = None)
               => /\ result = Some(Ok)
                  /\ Cardinality(CallsOf("make_readonly"))
                         = Cardinality(HeadersOf("GnuRelro"))

\* ------------------------------------------------------------------ C9
\* The selected relocation section holds relocation records (REL or RELA,
\* which with the two ELF classes gives the four record shapes).
SelectedHoldsRecords ==
    \/ file.rela_dyn # None /\ file.rela_dyn[1].sh_type \in {"Rela", "Rel"}
    \/ file.rela_dyn = None /\ file.rel_dyn # None
           /\ file.rel_dyn[1].sh_type \in {"Rela", "Rel"}

\* C9 as stated: whichever of the four record shapes (Rel32, Rel64,
\* Rela32, Rela64) the selected section holds, load passes every record to
\* relocate and the shape by itself does not make load return an error.
C9_AsStated ==
    (UndisturbedRun /\ SelectedHoldsRecords)
        => /\ result = Some(Ok)
           /\ Cardinality(CallsOf("relocate")) = Len(SelectedEntries)

\* ----------------------------------------------------------------- C10
\* The RelocationEntry the Loader receives for a RelaEntry: offset and
\* index are those of the record, addend is Some(r_addend) for a RELA
\* record and None for a REL record.
RelocationEntry(e) ==
    [offset |-> e.entry.r_offset,
     index |-> e.entry.r_sym,
     addend |-> IF e.variant \in {"Rela32", "Rela64"}
                THEN Some(e.entry.r_addend) ELSE None]

\* The sh_type of the section the relocations are taken from.
SelectedShType ==
    IF file.rela_dyn # None THEN file.rela_dyn[1].sh_type ELSE file.rel_dyn[1].sh_type

\* C10: the RelocationEntry of the k-th relocate call carries the r_offset
\* of the k-th record of the selected section unchanged, the symbol index
\* of that record, and addend None when the section holds REL records,
\* Some(r_addend) when it holds RELA records.
C10_EntryFields ==
    \A k \in 1..Cardinality(CallsOf("relocate")) :
        LET i == CHOOSE i \in CallsOf("relocate") :
                     Cardinality({j \in CallsOf("relocate") : j <= i}) = k
            e == RelocationEntry(calls[i].call.entry)
            record == SelectedEntries[k]
        IN /\ e.offset = record.r_offset
           /\ e.index = record.r_sym
           /\ SelectedShType = "Rel" => e.addend = None
           /\ SelectedShType = "Rela" => e.addend = Some(record.r_addend)

\* A successful run that relocated the two REL records of .rel.dyn: the
\* last entry handed to relocate has the offset and the symbol index of
\* the second record and no addend.
C10_Witness ==
    /\ LoadSucceeded
    /\ Cardinality(CallsOf("relocate")) = 2
    /\ SelectedShType = "Rel"
    /\ RelocationEntry(calls[Len(calls)].call.entry)
           = [offset |-> 1016, index |-> 1, addend |-> None]

\* ----------------------------------------------------------------- C11
\* The numbers for which the `from` function of a table has an arm.
TableNumbers(arch) ==
    CASE arch = "x86" -> (0..11) \cup (20..23) \cup {38}
      [] arch = "x86_64" -> 0..23
      [] arch = "arm" -> 0..135
      [] arch = "riscv" -> (0..11) \cup (16..56)

\* The classification of the record of a RelaEntry for a binary of the
\* given architecture: the value of the architecture's table for the
\* type number of the record.
RelocationType(arch, e) == RelocationTypes_from(arch, e.entry.r_type)

\* The number is outside the table of some architecture.
UnknownSomewhere(n) == \E a \in Archs : n \notin TableNumbers(a)

\* The relocate calls made so far, in call order.
RelocateCalls ==
    LET RECURSIVE Collect(_)
        Collect(i) == IF i > Len(calls) THEN <<>>
                      ELSE IF calls[i].call.op = "relocate"
                           THEN <<calls[i]>> \o Collect(i + 1)
                           ELSE Collect(i + 1)
    IN Collect(1)

\* Every relocate call made so far carries the type number of its record
\* as it is in the section, and for every architecture whose table does
\* not define that number the entry classifies as Unknown of that number.
UnknownTypesKept ==
    \A k \in DOMAIN RelocateCalls :
        LET e == RelocateCalls[k].call.entry
            n == SelectedEntries[k].r_type
        IN /\ e.entry.r_type = n
           /\ \A a \in Archs :
                  n \notin TableNumbers(a) => RelocationType(a, e) = Unknown(n)

\* A step of the relocation loop at a record whose number some table does
\* not define: the record is passed to relocate, and load ends at this
\* step exactly when that call returns an error, with that error.
UnknownTypeStep ==
    (/\ pc = "relocate"
     /\ rel <= Len(SelectedEntries)
     /\ UnknownSomewhere(SelectedEntries[rel].r_type))
        => /\ Len(calls') = Len(calls) + 1
           /\ calls'[Len(calls')].call.op = "relocate"
           /\ calls'[Len(calls')].call.entry.entry = SelectedEntries[rel]
           /\ (pc' = "done") <=> (calls'[Len(calls')].res # Ok)
           /\ (pc' = "done") => result' = Some(calls'[Len(calls')].res)

\* C11: a relocation record whose type number is not in the
\* architecture's table does not make load fail by itself: the record the
\* relocation loop is at is passed to relocate with its raw number n,
\* which classifies as Unknown(n), and load fails at that record only
\* with the error the Loader's relocate returned for it.
C11_UnknownTypePassedOn == []UnknownTypesKept /\ [][UnknownTypeStep]_vars

\* A successful run that has passed a record with number 13, which the
\* x86 and RISC-V tables do not define, to relocate, and gone on to seal a
\* PT_GNU_RELRO window.
C11_Witness ==
    /\ LoadSucceeded
    /\ Len(RelocateCalls) = 2
    /\ RelocateCalls[2].call.entry.entry.r_type = 13
    /\ RelocationType("riscv", RelocateCalls[2].call.entry) = Unknown(13)
    /\ RelocationType("x86_64", RelocateCalls[2].call.entry) = Named("R_PC16")
    /\ CallsOf("make_readonly") # {}

\* ----------------------------------------------------------------- C12
\* ElfBinary::new has returned an ElfBinary.
Constructed == pc = "done" /\ result[1].ok

\* The ElfBinary that ElfBinary::new returned.
Binary == result[1].val

\* The positions of the entries of the dynamic segment with one tag.
TagEntries(tag) ==
    { i \in DOMAIN region.dyn_entries : region.dyn_entries[i].tag = tag }

\* No tag occurs twice in the dynamic segment.
UniqueTags == \A tag \in DynTags : Cardinality(TagEntries(tag)) <= 1

\* The binary has a PT_DYNAMIC segment whose DT_FLAGS_1 entry has the
\* DF_1_PIE bit set.
HasPieFlag ==
    /\ HasDynamic(region.phdrs)
    /\ \E i \in TagEntries("Flags1") : (region.dyn_entries[i].val \div PIE) % 2 = 1

\* C12 as stated: for every successfully constructed ElfBinary, of ELF
\* class 32 or 64 (whose dynamic segment has no tag twice), is_pie() is
\* true if and only if the binary has a PT_DYNAMIC segment whose
\* DT_FLAGS_1 entry has the DF_1_PIE bit set.
C12_AsStated ==
    (Constructed /\ UniqueTags) => (is_pie(Binary) <=> HasPieFlag)

\* ----------------------------------------------------------------- C13
\* The position of the first PT_DYNAMIC program header, past the end of
\* the table when there is none.
FirstDynamic ==
    IF HasDynamic(region.phdrs)
    THEN CHOOSE i \in DOMAIN region.phdrs :
             /\ region.phdrs[i].type = "Dynamic"
             /\ \A j \in 1..(i - 1) : region.phdrs[j].type # "Dynamic"
    ELSE Len(region.phdrs) + 1

\* Every program header up to the first PT_DYNAMIC one has a type that
\* can be decoded.
HeadersDecodable == \A i \in DOMAIN region.phdrs :
    i <= FirstDynamic => region.phdrs[i].type # "Invalid"

\* Every entry of the dynamic segment of the first PT_DYNAMIC program
\* header has a tag that can be decoded.
TagsDecodable == HasDynamic(region.phdrs) => TagEntries("Invalid") = {}

\* C13 as stated: ElfBinary::new succeeds if and only if the byte region
\* has valid ELF magic and is at least as large as the file header; no
\* program-header type and no content of the dynamic segment makes
\* construction fail.
C13_AsStated ==
    pc = "done" => (result[1].ok <=> (region.magic /\ region.long_enough))

\* C13, amended: ElfBinary::new succeeds if and only if the byte region
\* has valid ELF magic, is at least as large as the file header, every
\* program header up to and including the first PT_DYNAMIC one has a type
\* that can be decoded, and every entry of that header's dynamic segment
\* has a tag that can be decoded; every failure is the ElfParser error.
C13_NewSucceedsIff ==
    pc = "done" =>
        /\ result[1].ok <=> /\ region.magic
                            /\ region.long_enough
                            /\ HeadersDecodable
                            /\ TagsDecodable
        /\ ~result[1].ok => result[1] = Err(ElfParser)

\* A binary constructed although a program header after its PT_DYNAMIC one
\* has a type that cannot be decoded; its dynamic segment has two entries.
C13_Witness ==
    /\ Constructed
    /\ Len(region.phdrs) = 3
    /\ region.phdrs[2].type = "Dynamic"
    /\ region.phdrs[3].type = "Invalid"
    /\ Len(region.dyn_entries) = 2
    /\ Binary.dynamic # None

\* ----------------------------------------------------------------- C14
\* The value of the entry with the given tag (of a segment that has one).
ValueOf(tag) ==
    region.dyn_entries[CHOOSE i \in TagEntries(tag) : TRUE].val

\* C14 as stated: for a (constructed) binary with a PT_DYNAMIC segment
\* (that has no tag twice), DynamicInfo.rela equals the value of the
\* segment's DT_RELA entry or, when the binary uses REL relocations (it
\* has a DT_REL entry and no DT_RELA entry), of its DT_REL entry, and
\* DynamicInfo.rela_size equals the value of DT_RELASZ or DT_RELSZ
\* respectively.
C14_AsStated ==
    (Constructed /\ HasDynamic(region.phdrs) /\ UniqueTags) =>
        LET info == Binary.dynamic[1] IN
        /\ TagEntries("Rela") # {} => info.rela = ValueOf("Rela")
        /\ TagEntries("RelaSize") # {} => info.rela_size = ValueOf("RelaSize")
        /\ (TagEntries("Rela") = {} /\ TagEntries("Rel") # {})
               => info.rela = ValueOf("Rel")
        /\ (TagEntries("RelaSize") = {} /\ TagEntries("RelSize") # {})
               => info.rela_size = ValueOf("RelSize")

\* ----------------------------------------------------------------- C15
\* The region is an ELF file for the parser.
IsElf == region.magic /\ region.long_enough

\* The DynamicInfo of a constructed binary is absent exactly when the
\* binary has no PT_DYNAMIC program header.
AbsentIffNoDynamic ==
    Constructed => (Binary.dynamic = None <=> ~HasDynamic(region.phdrs))

\* C15 as stated: DynamicInfo is absent exactly when the binary has no
\* PT_DYNAMIC program header; constructing an ElfBinary from such a
\* binary succeeds and is_pie() then returns false.
C15_AsStated ==
    /\ AbsentIffNoDynamic
    /\ (pc = "done" /\ IsElf /\ ~HasDynamic(region.phdrs))
           => Constructed /\ ~is_pie(Binary)

\* C15, amended: the same, where constructing succeeds for the binaries
\* without PT_DYNAMIC program header all of whose program-header types
\* can be decoded (and fails for the others).
C15_AbsentIffNoDynamic ==
    /\ AbsentIffNoDynamic
    /\ (pc = "done" /\ IsElf /\ ~HasDynamic(region.phdrs))
           => /\ Constructed <=> HeadersDecodable
              /\ Constructed => ~is_pie(Binary)

\* A binary constructed from a region with three program headers, none of
\* them PT_DYNAMIC: it has no DynamicInfo and is not PIE.
C15_Witness ==
    /\ Constructed
    /\ Len(region.phdrs) = 3
    /\ ~HasDynamic(region.phdrs)
    /\ Binary.dynamic = None
    /\ ~is_pie(Binary)

\* ----------------------------------------------------------------- C16
\* The names the i386 ABI gives the relocation numbers 0 to 10.
I386Abi ==
    <<"R_386_NONE", "R_386_32", "R_386_PC32", "R_386_GOT32", "R_386_PLT32",
      "R_386_COPY", "R_386_GLOB_DAT", "R_386_JMP_SLOT", "R_386_RELATIVE",
      "R_386_GOTOFF", "R_386_GOTPC">>

\* C16 as stated: x86 RelocationTypes::from maps every relocation number
\* of the i386 ABI from 0 to 10 to the variant that carries the ABI name
\* of that number (0 R_386_NONE, 1 R_386_32, 2 R_386_PC32, ...,
\* 10 R_386_GOTPC).
C16_AsStated ==
    (pc = "done" /\ reloc.arch = "x86" /\ reloc.n <= 10)
        => result = Some(Named(I386Abi[reloc.n + 1]))

\* ----------------------------------------------------------------- C17
\* C17: every per-architecture from function (x86, x86_64, ARM, RISC-V)
\* yields a value for every number; a number outside the table, also one
\* in a numeric gap (RISC-V 12 to 15, x86 12 to 19), yields Unknown(n)
\* carrying exactly the input n, and Unknown is never produced for a
\* number the table defines.
C17_UnknownOutsideTable ==
    pc = "done" =>
        /\ "variant" \in DOMAIN result[1]
        /\ reloc.n \notin TableNumbers(reloc.arch) => result[1] = Unknown(reloc.n)
        /\ reloc.n \in TableNumbers(reloc.arch) => result[1].variant # "Unknown"

\* The RISC-V table applied to 13, a number in its gap, has given
\* Unknown(13).
C17_Witness ==
    /\ pc = "done"
    /\ reloc = [arch |-> "riscv", n |-> 13]
    /\ result = Some(Unknown(13))

\* ----------------------------------------------------------------- C18
\* The address range [addr, addr + len) lies inside the range
\* [p_vaddr, p_vaddr + p_memsz) of a header of the sequence that an
\* allocate call before position i of the log was passed.
InsideAllocated(i, addr, len) ==
    \E j \in CallsOf("allocate") :
        /\ j < i
        /\ \E k \in DOMAIN calls[j].call.load_headers :
               LET h == calls[j].call.load_headers[k] IN
               /\ h.type = "Load"
               /\ h.virtual_addr <= addr
               /\ addr + len <= h.virtual_addr + h.mem_size

\* C18 as stated: every relocate call made by load carries an offset that
\* lies inside the address range [p_vaddr, p_vaddr + p_memsz) of some
\* PT_LOAD header that was passed to the preceding allocate call.
C18_AsStated ==
    \A i \in CallsOf("relocate") :
        InsideAllocated(i, RelocationEntry(calls[i].call.entry).offset, 1)

\* ----------------------------------------------------------------- C19
\* C19 as stated: every load call is preceded by the allocate call, and
\* the address range [base, base + len(region)) of every load call lies
\* inside [p_vaddr, p_vaddr + p_memsz) of a PT_LOAD header that was in the
\* sequence passed to that allocate call.
C19_AsStated ==
    \A i \in CallsOf("load") :
        /\ \E j \in CallsOf("allocate") : j < i
        /\ InsideAllocated(i, calls[i].call.base, calls[i].call.region_len)

\* ----------------------------------------------------------------- C20
\* The program headers of type PT_LOAD, in file order.
LoadHeadersInFileOrder ==
    [k \in 1..Cardinality(HeadersOf("Load")) |->
        file.phdrs[CHOOSE p \in HeadersOf("Load") :
                       Cardinality({q \in HeadersOf("Load") : q <= p}) = k]]

\* The load calls made so far, in call order.
LoadCalls ==
    LET RECURSIVE Collect(_)
        Collect(i) == IF i > Len(calls) THEN <<>>
                      ELSE IF calls[i].call.op = "load"
                           THEN <<calls[i].call>> \o Collect(i + 1)
                           ELSE Collect(i + 1)
    IN Collect(1)

\* The load calls of the headers of a sequence, one per header, in the
\* order of the sequence.
LoadsOf(headers) ==
    [k \in DOMAIN headers |->
        [op |-> "load", flags |-> headers[k].flags,
         base |-> headers[k].virtual_addr, region_len |-> headers[k].file_size]]

\* Sequence s is the beginning of sequence t.
IsPrefix(s, t) == Len(s) <= Len(t) /\ SubSeq(t, 1, Len(s)) = s

\* The sequence every allocate call was passed holds exactly the PT_LOAD
\* headers in file order, and so does a second traversal from the start.
AllocatedAreLoadHeaders ==
    \A j \in CallsOf("allocate") :
        /\ calls[j].call.load_headers = LoadHeadersInFileOrder
        /\ iter_loadable_headers(file) = calls[j].call.load_headers

\* C20 as stated: the sequence passed to allocate yields exactly the
\* program headers of type PT_LOAD, in file order, and no other header;
\* traversing it again from the start yields the same headers; and (in a
\* finished run on an eligible binary in which every Loader call
\* succeeded) these are the same headers, in the same order, for which
\* load is called afterwards.
C20_AsStated ==
    /\ AllocatedAreLoadHeaders
    /\ (pc = "done" /\ Eligible /\ AllCallsOk)
           => \A j \in CallsOf("allocate") :
                  LoadCalls = LoadsOf(calls[j].call.load_headers)

\* C20, amended: the same, where the headers load is called for are those
\* of the sequence in the runs over binaries all of whose program-header
\* types can be decoded; in every state of every run the load calls made
\* so far are those of the first headers of the sequence, in its order.
C20_LoadableHeaders ==
    /\ AllocatedAreLoadHeaders
    /\ CallsOf("load") # {} => CallsOf("allocate") # {}
    /\ \A j \in CallsOf("allocate") :
           /\ IsPrefix(LoadCalls, LoadsOf(calls[j].call.load_headers))
           /\ UndisturbedRun => LoadCalls = LoadsOf(calls[j].call.load_headers)

\* A successful run over a binary with two PT_LOAD headers followed by a
\* PT_GNU_RELRO one: allocate was passed the two, and load was called
\* for the first and then for the second.
C20_Witness ==
    /\ LoadSucceeded
    /\ [p \in DOMAIN file.phdrs |-> file.phdrs[p].type]
           = <<"Load", "Load", "GnuRelro">>
    /\ calls[1].call.op = "allocate"
    /\ calls[1].call.load_headers = <<file.phdrs[1], file.phdrs[2]>>
    /\ LoadCalls = LoadsOf(<<file.phdrs[1], file.phdrs[2]>>)

\* ----------------------------------------------------------------- C21
\* A step of one of the two loops over the program headers at a header of
\* a type other than PT_LOAD, PT_TLS and PT_GNU_RELRO: no Loader call is
\* made, load does not return, and the loop goes on to the next header.
SkippedHeaderStep ==
    (/\ pc \in {"segments", "relro"}
     /\ ph <= Len(file.phdrs)
     /\ file.phdrs[ph].type = "Dynamic")
        => /\ calls' = calls
           /\ pc' = pc
           /\ result' = result
           /\ ph' = ph + 1

\* The number of Loader calls of a successful load: one allocate call,
\* one call per PT_LOAD, per PT_TLS and per PT_GNU_RELRO header and one per
\* record of the selected relocation section.
CallCount ==
    LoadSucceeded =>
        Len(calls) = 1 + Cardinality(HeadersOf("Load"))
                       + Cardinality(HeadersOf("Tls"))
                       + Len(SelectedEntries)
                       + Cardinality(HeadersOf("GnuRelro"))

\* C21: a program header of a type other than PT_LOAD, PT_TLS and
\* PT_GNU_RELRO (PT_DYNAMIC stands for all of them) causes no Loader call
\* and no error during load, and a successful load makes exactly
\* 1 + #PT_LOAD + #PT_TLS + #relocation entries + #PT_GNU_RELRO Loader
\* calls.
C21_OthersSkipped == []CallCount /\ [][SkippedHeaderStep]_vars

\* A successful run over a binary whose first and last program headers
\* are of a skipped type, around a PT_LOAD one, with two relocations:
\* four Loader calls.
C21_Witness ==
    /\ LoadSucceeded
    /\ [p \in DOMAIN file.phdrs |-> file.phdrs[p].type]
           = <<"Dynamic", "Load", "Dynamic">>
    /\ Len(SelectedEntries) = 2
    /\ Len(calls) = 4

\* ----------------------------------------------------------------- C22
\* The other of the two ELF classes.
OtherClass(class) == IF class = "ThirtyTwo" THEN "SixtyFour" ELSE "ThirtyTwo"

\* C22 as stated, for the PT_DYNAMIC header, which is processed when the
\* binary is constructed: the header of a 32-bit binary is processed the
\* same way as that of a 64-bit binary, that is, ElfBinary::new gives the
\* same result for the region and for the region that differs from it in
\* the ELF class only.
C22_AsStated ==
    pc = "done" =>
        result[1] = ElfBinary_new([region EXCEPT !.class = OtherClass(@)])

\* ----------------------------------------------------------------- C23
\* The machines the specification names as supported: i386, x86_64, ARM,
\* AArch64 and RISC-V.
SupportedMachines == {"X86", "X86_64", "Arm", "AArch64", "RISC_V"}

\* C23 as stated: load returns an error for every binary whose machine
\* field is not one of the supported machines, even when version, byte
\* order, OS/ABI and file type are all supported.
C23_AsStated ==
    (pc = "done" /\ file.machine \notin SupportedMachines) => result # Some(Ok)

\* ----------------------------------------------------------------- C24
\* The Loader of the run implements allocate, load and relocate, each of
\* which succeeded, and leaves tls and make_readonly to the defaults of
\* the trait: every tls and make_readonly call returned what the default
\* body returns for its arguments.
DefaultsUsed ==
    \A i \in DOMAIN calls :
        LET c == calls[i].call IN
        calls[i].res =
            IF c.op = "tls"
            THEN tls(c.tdata_start, c.tdata_length, c.total_size, c.align)
            ELSE IF c.op = "make_readonly"
            THEN make_readonly(c.base, c.size)
            ELSE Ok

\* The selected relocation section, if any, holds records of a shape that
\* load hands to relocate: RELA records, or REL records of a 32-bit file.
SelectedHandled ==
    \/ file.rela_dyn = None /\ file.rel_dyn = None
    \/ /\ SelectedHoldsRecords
       /\ SelectedShType = "Rel" => file.class = "ThirtyTwo"

\* C24: the default tls and make_readonly return success, so a Loader that
\* implements only allocate, load and relocate (each succeeding) completes
\* load successfully on a binary that load accepts (eligible, decodable
\* program headers, relocation records of a handled shape), whatever
\* PT_TLS and PT_GNU_RELRO headers it has; each such header still leads to
\* its call.
C24_DefaultsSucceed ==
    (/\ pc = "done"
     /\ DefaultsUsed
     /\ Eligible
     /\ HeadersOf("Invalid") = {}
     /\ SelectedHandled)
        => /\ result = Some(Ok)
           /\ Cardinality(CallsOf("tls")) = Cardinality(HeadersOf("Tls"))
           /\ Cardinality(CallsOf("make_readonly"))
                  = Cardinality(HeadersOf("GnuRelro"))

\* A run with the defaults that succeeded on a binary with a PT_LOAD, a
\* PT_TLS and a PT_GNU_RELRO header and two relocation records.
C24_Witness ==
    /\ LoadSucceeded
    /\ DefaultsUsed
    /\ [p \in DOMAIN file.phdrs |-> file.phdrs[p].type] = <<"Load", "Tls", "GnuRelro">>
    /\ [i \in DOMAIN calls |-> calls[i].call.op]
           = <<"allocate", "load", "tls", "relocate", "relocate", "make_readonly">>

\* ----------------------------------------------------------------- C25
\* The entries of the section named .symtab, none when there is no such
\* section.
SymtabEntries == IF file.symtab = None THEN <<>> ELSE file.symtab[1].entries

\* C25 as stated: for_each_symbol returns SymbolTableNotFound without
\* invoking the callback when the binary has no .symtab section;
\* otherwise it invokes the callback exactly once per symbol-table entry,
\* in table order, and returns success.
C25_AsStated ==
    pc = "done" =>
        IF file.symtab = None
        THEN result = Some(Err("SymbolTableNotFound")) /\ calls = <<>>
        ELSE result = Some(Ok) /\ calls = SymtabEntries

\* The section named .symtab holds a symbol table.
HoldsSymbolTable ==
    file.symtab # None /\ file.symtab[1].sh_type = "SymTab"

\* C25, amended: for_each_symbol returns SymbolTableNotFound without
\* invoking the callback when the binary has no .symtab section or the
\* section of that name holds something other than a symbol table, and
\* the ElfParser error, again without invoking the callback, when the
\* section's type cannot be decoded; otherwise it invokes the callback
\* exactly once per symbol-table entry, in table order, and returns
\* success.  At every moment the invocations made so far are a prefix of
\* the table.
C25_SymbolsVisited ==
    /\ IsPrefix(calls, SymtabEntries)
    /\ ~HoldsSymbolTable => calls = <<>>
    /\ pc = "done" =>
           IF HoldsSymbolTable
           THEN result = Some(Ok) /\ calls = SymtabEntries
           ELSE IF file.symtab # None /\ file.symtab[1].sh_type = "Invalid"
           THEN result = Some(Err(ElfParser))
           ELSE result = Some(Err("SymbolTableNotFound"))

\* for_each_symbol has returned Ok after visiting a table of three entries
\* in which one symbol is entered twice.
C25_Witness ==
    /\ pc = "done"
    /\ result = Some(Ok)
    /\ file.symtab # None
    /\ file.symtab[1].entries = <<"main", "_start", "main">>
    /\ calls = <<"main", "_start", "main">>

\* ----------------------------------------------------------------- C26
\* The content of the section named .interp.
InterpVal == file.interp[1].val

\* The content ends with a NUL byte.
NulTerminated == InterpVal # <<>> /\ InterpVal[Len(InterpVal)] = 0

\* The NUL-terminated string at the start of the content, without its
\* terminating NUL.
CString ==
    LET nul == { i \in DOMAIN InterpVal : InterpVal[i] = 0 }
    IN SubSeq(InterpVal, 1, (CHOOSE i \in nul : \A j \in nul : i <= j) - 1)

\* C26 as stated: interpreter() returns None when the binary has no
\* .interp section or the section's content is malformed (not
\* NUL-terminated, or not valid UTF-8), and otherwise returns the
\* section's NUL-terminated string without its terminating NUL.
C26_AsStated ==
    pc = "done" =>
        result[1] = IF file.interp = None THEN None
                    ELSE IF ~NulTerminated \/ ~Utf8(InterpVal) THEN None
                    ELSE Some(CString)

\* ----------------------------------------------------------------- C27
\* The raw value of the last DT_FLAGS_1 entry of the dynamic segment.
RawFlags1 ==
    region.dyn_entries[CHOOSE i \in TagEntries("Flags1") :
                           \A j \in TagEntries("Flags1") : j <= i].val

\* C27: DynamicInfo.flags1 holds the raw value of the DT_FLAGS_1 entry
\* that the walk over a Dynamic64 segment records, bit for bit: every bit
\* of the value, the bits that are not a named DF_1_* flag included, is
\* preserved, so flags1.bits() equals the raw value, and a bit is in
\* flags1 exactly when it is set in the raw value.
C27_FlagsBitForBit ==
    (/\ Constructed
     /\ region.class = "SixtyFour"
     /\ HasDynamic(region.phdrs)
     /\ TagEntries("Flags1") # {})
        => /\ bits(Binary.dynamic[1].flags1) = RawFlags1
           /\ \A b \in 0..63 :
                  b \in Binary.dynamic[1].flags1 <=> Bit(RawFlags1, b)

\* A constructed 64-bit binary whose DT_FLAGS_1 value has a bit that no
\* DF_1_* flag names: flags1.bits() has that bit.
C27_Witness ==
    /\ Constructed
    /\ region.class = "SixtyFour"
    /\ HasDynamic(region.phdrs)
    /\ TagEntries("Flags1") # {}
    /\ RawFlags1 = UnnamedBit + 1
    /\ bits(Binary.dynamic[1].flags1) = UnnamedBit + 1

\* ----------------------------------------------------------------- C28
\* The tags of the relocation-table address, the relocation-table size and
\* the flags.
SummaryTags == {"Rela", "RelaSize", "Rel", "RelSize", "Flags", "Flags1"}

\* The region without the entries of its dynamic segment that have one of
\* the given tags.
Without(tags) ==
    [region EXCEPT !.dyn_entries = SelectSeq(@, LAMBDA e : e.tag \notin tags)]

\* C28 as stated: dynamic entries whose tag is not one of the
\* relocation-table address, relocation-table size and flags tags neither
\* change the resulting DynamicInfo nor make construction fail:
\* ElfBinary::new gives the region the result it gives the region without
\* those entries.
C28_AsStated ==
    pc = "done" => result[1] = ElfBinary_new(Without(DynTags \ SummaryTags))

\* C28, amended: dynamic entries whose tag can be decoded and is not one
\* of the relocation-table address, relocation-table size and flags tags
\* (DT_NEEDED in the model) neither change the resulting DynamicInfo nor
\* make construction fail.
C28_OtherTagsIgnored ==
    pc = "done" => result[1] = ElfBinary_new(Without({"Needed"}))

\* A constructed binary whose dynamic segment has a DT_NEEDED entry
\* before its DT_RELA entry: rela is the value of the latter.
C28_Witness ==
    /\ Constructed
    /\ HasDynamic(region.phdrs)
    /\ [i \in DOMAIN region.dyn_entries |-> region.dyn_entries[i].tag]
           = <<"Needed", "Rela">>
    /\ Binary.dynamic[1].rela = region.dyn_entries[2].val
    /\ Binary = ElfBinary_new(Without({"Needed"})).val

\* ----------------------------------------------------------------- C29
\* A relocation section is selected and does not hold relocation records
\* of a shape load handles.
SelectedUnhandled ==
    (file.rela_dyn # None \/ file.rel_dyn # None) /\ ~SelectedHandled

\* When load comes to the relocation phase of such a binary, the allocate
\* call and the load and tls calls of all PT_LOAD and PT_TLS headers are
\* in the log, and the step returns UnsupportedSectionData without a call.
UnsupportedSectionStep ==
    (pc = "segments" /\ ph > Len(file.phdrs) /\ SelectedUnhandled)
        => /\ result' = Some(Err("UnsupportedSectionData"))
           /\ pc' = "done"
           /\ calls' = calls
           /\ CallsOf("allocate") = {1}
           /\ Cardinality(CallsOf("load")) = Cardinality(HeadersOf("Load"))
           /\ Cardinality(CallsOf("tls")) = Cardinality(HeadersOf("Tls"))

\* For such a binary no relocate call and no make_readonly call is ever
\* made and load never returns Ok; when no earlier phase has ended load
\* (the binary is eligible, its program headers are decodable and no
\* Loader call failed), load returns UnsupportedSectionData.
UnsupportedSectionOutcome ==
    SelectedUnhandled
        => /\ CallsOf("relocate") = {}
           /\ CallsOf("make_readonly") = {}
           /\ result # Some(Ok)
           /\ UndisturbedRun => result = Some(Err("UnsupportedSectionData"))

HeadersBefore(t, p) == { q \in HeadersOf(t) : q < p }

\* No header whose type cannot be decoded is in the sequence passed to
\* allocate; no relocate and no make_readonly call is made for a binary
\* that has such a header; and a run on such a binary that no earlier
\* phase or failed Loader call has ended returns the ElfParser error.
UndecodableOutcome ==
    /\ \A i \in CallsOf("allocate") :
           \A k \in DOMAIN calls[i].call.load_headers :
               calls[i].call.load_headers[k].type # "Invalid"
    /\ HeadersOf("Invalid") # {}
           => /\ CallsOf("relocate") = {}
              /\ CallsOf("make_readonly") = {}
              /\ (pc = "done" /\ Eligible /\ AllCallsOk)
                     => result = Some(Err(ElfParser))

\* When the segment pass comes to a header whose type cannot be decoded,
\* the allocate call and the load and tls calls of all earlier headers
\* are in the log, and the step ends load with the ElfParser error
\* without a call.
UndecodableStep ==
    (/\ pc = "segments"
     /\ ph <= Len(file.phdrs)
     /\ file.phdrs[ph].type = "Invalid")
        => /\ result' = Some(Err(ElfParser))
           /\ pc' = "done"
           /\ calls' = calls
           /\ CallsOf("allocate") = {1}
           /\ Cardinality(CallsOf("load")) = Cardinality(HeadersBefore("Load", ph))
           /\ Cardinality(CallsOf("tls")) = Cardinality(HeadersBefore("Tls", ph))
           /\ Len(calls) = 1 + Cardinality(HeadersBefore("Load", ph))
                              + Cardinality(HeadersBefore("Tls", ph))

\* C30: a program header whose type field cannot be decoded is left out
\* of the sequence passed to allocate, but when the segment pass of load
\* reaches it load aborts with an ElfParser error, after allocate and the
\* load/tls calls for all earlier headers have been made and before any
\* relocate or make_readonly call.
C30_UndecodableHeader == []UndecodableOutcome /\ [][UndecodableStep]_vars

\* load has returned the ElfParser error at the third header of the table
\* PT_DYNAMIC, PT_LOAD, undecodable: allocate was passed the one PT_LOAD
\* header and the load call of that header was made.
C30_Witness ==
    /\ pc = "done"
    /\ result = Some(Err(ElfParser))
    /\ [p \in DOMAIN file.phdrs |-> file.phdrs[p].type] = <<"Dynamic", "Load", "Invalid">>
    /\ [i \in DOMAIN calls |-> calls[i].call.op] = <<"allocate", "load">>
    /\ calls[1].call.load_headers = <<file.phdrs[2]>>

\* ----------------------------------------------------------------- C31
\* The ElfBinary load runs on.
TheBinary == [file |-> file, dynamic |-> dynamic]

\* The Loader of this run has returned, call for call, what the Loader of
\* the earlier run returned.
SameResults ==
    \A i \in DOMAIN calls :
        i <= Len(earlier[1].calls) => calls[i].res = earlier[1].calls[i].res

\* In a second run whose Loader returns what the Loader of the first run
\* returned, the calls made so far are the first calls of the first run,
\* with the same arguments, and when the run has ended it has made all
\* the calls of the first run and returned its result.
SameRun ==
    (earlier # None /\ SameResults)
        => /\ IsPrefix(calls, earlier[1].calls)
           /\ pc = "done" => /\ calls = earlier[1].calls
                             /\ result = earlier[1].result

\* No step of a run, and no return from one, changes the binary or what
\* is_pie(), entry_point() and DynamicInfo give.
BinaryKept ==
    /\ file' = file
    /\ dynamic' = dynamic
    /\ is_pie(TheBinary)' = is_pie(TheBinary)
    /\ entry_point(TheBinary)' = entry_point(TheBinary)

C32_RelocationByName ==
    /\ IsPrefix(RelocatedRecords, SelectedEntries)
    /\ (UndisturbedRun /\ SelectedHandled) => RelocatedRecords = SelectedEntries

\* load has succeeded on a binary without DynamicInfo, which is not PIE,
\* and has passed the two records of its .rela.dyn section to relocate.
C32_Witness ==
    /\ LoadSucceeded
    /\ dynamic = None
    /\ ~is_pie(TheBinary)
    /\ file.rela_dyn # None
    /\ Len(file.rela_dyn[1].entries) = 2
    /\ RelocatedRecords = file.rela_dyn[1].entries

\* ----------------------------------------------------------------- C33
\* The eligibility conditions the binary violates, by the error each one
\* is reported with.
Violations ==
    (IF file.version # "Current" THEN {"UnsupportedElfVersion"} ELSE {})
    \cup (IF file.data # "LittleEndian" THEN {"UnsupportedEndianness"} ELSE {})
    \cup (IF file.os_abi \notin {"SystemV", "Linux"} THEN {"UnsupportedAbi"} ELSE {})
    \cup (IF file.type \notin {"Executable", "SharedObject"}
          THEN {"UnsupportedElfType"} ELSE {})

\* The fixed order of the conditions: version, byte order, OS/ABI, file
\* type.
ErrorOrder ==
    <<"UnsupportedElfVersion", "UnsupportedEndianness", "UnsupportedAbi",
      "UnsupportedElfType">>

\* C33: when a binary violates several eligibility conditions at once,
\* load reports the first one that fails in the fixed order version, byte
\* order, OS/ABI, file type (and only that one condition when it violates
\* a single one).
C33_FirstFailureReported ==
    (pc = "done" /\ Violations # {})
        => \E k \in DOMAIN ErrorOrder :
               /\ result = Some(Err(ErrorOrder[k]))
               /\ ErrorOrder[k] \in Violations
               /\ \A j \in 1..(k - 1) : ErrorOrder[j] \notin Violations

\* load has returned UnsupportedEndianness for a big-endian binary of
\* unsupported file type and unsupported OS/ABI.
C33_Witness ==
    /\ pc = "done"
    /\ file.version = "Current"
    /\ file.data = "BigEndian"
    /\ file.os_abi = "OpenBSD"
    /\ file.type = "Relocatable"
    /\ result = Some(Err("UnsupportedEndianness"))

\* ----------------------------------------------------------------- C34
\* The region with the program headers up to and including its first
\* PT_DYNAMIC header only.
UpToFirstDynamic ==
    [region EXCEPT !.phdrs = IF HasDynamic(@) THEN SubSeq(@, 1, FirstDynamic)
                             ELSE @]

\* C34: construction parses only the first PT_DYNAMIC program header in
\* file order, and the program headers that follow it are not examined:
\* ElfBinary::new gives the region the result (error or DynamicInfo) it
\* gives the region without the headers after the first PT_DYNAMIC one,
\* whether these are PT_DYNAMIC headers with a segment of their own or
\* headers whose type cannot be decoded; and the DynamicInfo is that of
\* the first header's segment.
C34_FirstDynamicOnly ==
    pc = "done" =>
        /\ result[1] = ElfBinary_new(UpToFirstDynamic)
        /\ (Constructed /\ HasDynamic(region.phdrs))
               => Binary.dynamic = parse_dynamic(region, FirstDynamic).val

\* A binary constructed from the table PT_DYNAMIC, PT_DYNAMIC, undecodable:
\* rela is the DT_RELA value of the first header's segment, not the one
\* of the later segment.
C34_Witness ==
    /\ Constructed
    /\ [p \in DOMAIN region.phdrs |-> region.phdrs[p].type]
           = <<"Dynamic", "Dynamic", "Invalid">>
    /\ TagEntries("Rela") # {}
    /\ Binary.dynamic[1].rela = ValueOf("Rela")
    /\ Binary.dynamic[1].rela # LaterSegment[1].val

\* ----------------------------------------------------------------- C35
\* The numbers for which the table of the architecture gives the variant.
NumbersOf(arch, variant) ==
    { m \in 0..MaxNumber : RelocationTypes_from(arch, m) = Named(variant) }

\* C35: in no table do two distinct relocation numbers map to the same
\* named variant (the number the table was applied to is the only number
\* that gives the variant it has given), and every named variant of each
\* relocation enum (x86, x86_64 TypeRela64, ARM, RISC-V) is produced by
\* exactly one number; the table gives named variants of its enum only.
C35_OneNumberPerVariant ==
    pc = "done" =>
        LET variants == RelocationTypes(reloc.arch) IN
        /\ result[1].variant # "Unknown"
               => /\ NumbersOf(reloc.arch, result[1].variant) = {reloc.n}
                  /\ \E k \in DOMAIN variants : variants[k] = result[1].variant
        /\ reloc.n < Len(variants)
               => Cardinality(NumbersOf(reloc.arch, variants[reloc.n + 1])) = 1

\* The x86 table applied to 38, the number after its second gap, has
\* given R_386_SIZE32, the last variant of the enum, which no other
\* number gives.
C35_Witness ==
    /\ pc = "done"
    /\ reloc = [arch |-> "x86", n |-> 38]
    /\ result = Some(Named("R_386_SIZE32"))
    /\ x86_RelocationTypes[Len(x86_RelocationTypes)] = "R_386_SIZE32"
    /\ NumbersOf("x86", "R_386_SIZE32") = {38}

\* ----------------------------------------------------------------- C36
\* The tag whose value the parse records in flags1: the tag that the
\* branch of the binary's class has an arm for.
RecordedFlagsTag == IF region.class = "SixtyFour" THEN "Flags1" ELSE "Flags"

\* The value of the last entry of the dynamic segment with the tag, the
\* default 0 when no entry has it.
LastValueOr0(tag) ==
    IF TagEntries(tag) = {} THEN 0
    ELSE region.dyn_entries[CHOOSE i \in TagEntries(tag) :
                                \A j \in TagEntries(tag) : j <= i].val

\* C36: in the dynamic-segment parse, a recorded field that has no
\* matching entry keeps its default (rela = 0, rela_size = 0, flags1
\* empty), and when a recorded tag occurs more than once the value of its
\* last occurrence in the segment is the one stored in DynamicInfo.
C36_DefaultsAndLastWins ==
    (Constructed /\ HasDynamic(region.phdrs)) =>
        LET info == Binary.dynamic[1] IN
        /\ info.rela = LastValueOr0("Rela")
        /\ info.rela_size = LastValueOr0("RelaSize")
        /\ bits(info.flags1) = LastValueOr0(RecordedFlagsTag)
        /\ TagEntries(RecordedFlagsTag) = {} => info.flags1 = {}

\* A constructed 64-bit binary whose dynamic segment has two DT_RELA
\* entries and nothing else: rela is the value of the second, rela_size
\* is 0 and flags1 is empty.
C36_Witness ==
    /\ Constructed
    /\ region.class = "SixtyFour"
    /\ HasDynamic(region.phdrs)
    /\ TagEntries("Rela") = {1, 2}
    /\ region.dyn_entries[1].val # region.dyn_entries[2].val
    /\ Binary.dynamic[1]
           = [flags1 |-> {}, rela |-> region.dyn_entries[2].val, rela_size |-> 0]

\* ------------------------------------------------------------ typing
TypeOK ==
    /\ pc \in {"is_loadable", "allocate", "segments", "relocate", "relro", "done"}
    /\ ph \in 1..(Len(file.phdrs) + 1)
    /\ rel \in 1..(MaxRel + 1)
    /\ (pc = "done") <=> (result # None)

====
